---- MODULE Spec2Model ----
(***************************************************************************)
(* State-machine model of the PAM.py NFC server (ppnfc_server.py):         *)
(* the main process ("Coordinator"), the connection server ("Acceptor"),   *)
(* the client handlers ("Session Handlers"), the encrypted-UIDs file and   *)
(* the listeners seen through the messages they put on main_in_q.          *)
(*                                                                         *)
(* Conventions                                                             *)
(*  - Time is counted in units of 30 s: the two 60 s timeouts are 2.       *)
(*  - Python's None is -1 for a timestamp, 0 for the recorded mtime, the   *)
(*    empty set for active_uids_prev (otherwise a one-element set) and the *)
(*    empty sequence for the UID list of an AUTH_RESULT.                   *)
(*  - crypt(uid, salt) is the pair <<uid, salt>>; crypt(uid, stored) =     *)
(*    stored exactly when stored was made from uid.                        *)
(*  - A file modification always advances the file's mtime.                *)
(***************************************************************************)
EXTENDS Integers, Sequences, FiniteSets, TLC

(***************************************************************************)
(* Bounds of the model                                                     *)
(***************************************************************************)
MaxQueue == 1
MaxTime == 3
MaxReq == 3
MaxLog == 3
MaxPipe == 2

(***************************************************************************)
(* Program constants and universes                                         *)
(***************************************************************************)
max_auth_request_wait == 2
client_force_close_socket_timeout == 2
NoExpiry == -1

Uids == {"AA", "BB", "CC"}
UidOrder == <<"AA", "BB", "CC">>
uids_translation_table == [u \in {"CC"} |-> "AA"]

Listeners == {"PCSC", "HID", "HTTP", "TCP"}
Salts == {1, 2}

Conns == {1, 2}
Pids == {1, 2}
PidOrder == <<1, 2>>
PeerUids == {0, 1000}
Users == {"root", "alice"}
Waits == {-1, 0, 1, 3}

VARIABLES
    now,                  \* wall clock (datetime.now().timestamp())
    main_in_q,            \* the main process' input queue
    main_state,           \* "run", or "crashed" after an uncaught exception
    active_listener_uids, \* active_pcsc_uids, active_http_uids, ...
    active_uids,
    active_uids_prev,
    auth_cache,           \* auth_cache and auth_uids_cache, keyed by user
    active_clients,
    encruids,
    encruids_file_mtime,
    load_result,          \* what load_encruids() returned in the last step
    sent,                 \* what the main process sent in its last step
    file,                 \* the encrypted UIDs file
    pipe,                 \* per connection: main_out_p -> chandler_out_p
    handler,              \* per connection: the client handler process
    sock,                 \* per connection: the client's end of the socket
    listener              \* the TCP and the HID listener processes

vars == <<now, main_in_q, main_state, active_listener_uids, active_uids,
          active_uids_prev, auth_cache, active_clients, encruids,
          encruids_file_mtime, load_result, sent, file, pipe, handler, sock,
          listener>>

mainVars == <<main_state, active_listener_uids, active_uids, active_uids_prev,
              auth_cache, active_clients, encruids, encruids_file_mtime,
              load_result, sent>>

(***************************************************************************)
(* Helpers                                                                 *)
(***************************************************************************)
Min(a, b) == IF a <= b THEN a ELSE b

ListOf(S) == SelectSeq(UidOrder, LAMBDA u : u \in S)

Repeat(x, n) == [i \in 1..n |-> x]

(***************************************************************************)
(* Merge of the listeners' lists (main, "Merge new the lists of UIDs")     *)
(***************************************************************************)
Translate(u) ==
    IF u \in DOMAIN uids_translation_table THEN uids_translation_table[u] ELSE u

\* the merge with the translation table left out
MergeUidsUntranslated(lists) == UNION {lists[l] : l \in Listeners}

MergeUids(lists) == {Translate(u) : u \in UNION {lists[l] : l \in Listeners}}

(***************************************************************************)
(* crypt() and the encrypted UIDs held in memory                           *)
(***************************************************************************)
crypt(uid, salt) == <<uid, salt>>

\* crypt(uid, registered_uid_encr) == registered_uid_encr
Verify(uid, registered_uid_encr) == registered_uid_encr[1] = uid

MatchingEntries(user, uid, store) ==
    {i \in 1..Len(store) : store[i][1] = user /\ Verify(uid, store[i][2])}

\* the load that leaves the store as it is when the file cannot be loaded
load_encruids_keeps_store(f, mtime, store) ==
    IF f.st = "missing"
    THEN [res |-> "None", mtime |-> mtime, encruids |-> store]
    ELSE IF mtime # 0 /\ f.mtime <= mtime
    THEN [res |-> "False", mtime |-> mtime, encruids |-> store]
    ELSE IF f.st = "bad"
    THEN [res |-> "None",
          mtime |-> IF mtime = 0 THEN f.mtime ELSE mtime,
          encruids |-> store]
    ELSE [res |-> "True", mtime |-> f.mtime, encruids |-> f.content]

\* load_encruids(): the value returned, the recorded mtime and the store
load_encruids(f, mtime, store) ==
    IF f.st = "missing"
    THEN [res |-> "None", mtime |-> mtime, encruids |-> <<>>]
    ELSE IF mtime # 0 /\ f.mtime <= mtime
    THEN [res |-> "False", mtime |-> mtime, encruids |-> store]
    ELSE IF f.st = "bad"
    THEN [res |-> "None",
          mtime |-> IF mtime = 0 THEN f.mtime ELSE mtime,
          encruids |-> <<>>]
    ELSE [res |-> "True", mtime |-> f.mtime, encruids |-> f.content]

(***************************************************************************)
(* main: the authentication of a user against the active UIDs              *)
(***************************************************************************)
RECURSIVE AuthUidsFrom(_, _, _, _)
AuthUidsFrom(k, user, act, store) ==
    IF k > Len(UidOrder) THEN <<>>
    ELSE (IF UidOrder[k] \in act
          THEN Repeat(UidOrder[k],
                      Cardinality(MatchingEntries(user, UidOrder[k], store)))
          ELSE <<>>) \o AuthUidsFrom(k + 1, user, act, store)

ComputeAuth(user, act, store) ==
    LET uids == AuthUidsFrom(1, user, act, store)
    IN  [auth |-> uids # <<>>, uids |-> uids]

\* the cache is wiped when the file was reloaded or the active UIDs changed
EmptyCache == [u \in {} |-> [auth |-> FALSE, uids |-> <<>>]]

\* the wipe that forgets the change of the active UIDs
WipeCacheOnReloadOnly(res, upd, cache) == IF res = "True" THEN EmptyCache ELSE cache

WipeCache(res, upd, cache) == IF res = "True" \/ upd THEN EmptyCache ELSE cache

\* the cached authentication status of a user, or a fresh match
Authenticate(user, act, store, cache) ==
    IF user \in DOMAIN cache THEN cache[user] ELSE ComputeAuth(user, act, store)

(***************************************************************************)
(* main: "Process the active clients' requests", for one client e.         *)
(* ka: the message is a keepalive; upd: send_active_uids_update.           *)
(* The result is the client after the pass and the messages sent to its    *)
(* main_out_p, in order.                                                   *)
(***************************************************************************)
\* the void request that inherits the deadline of the request it replaces
VoidClientKeepsDeadline(e, tstamp) ==
    [e EXCEPT !.request = "VOID_REQUEST"]

VoidClient(e, tstamp) ==
    [e EXCEPT !.request = "VOID_REQUEST",
              !.expires = tstamp + client_force_close_socket_timeout]

\* the update that is sent at every change of the active UIDs
WatchNbUidsAnyChange(e, act, prev, upd) ==
    IF /\ e.request = "WATCHNBUIDS_REQUEST"
       /\ upd
       /\ prev # {}
    THEN LET p == CHOOSE p \in prev : TRUE
         IN  <<[type |-> "NBUIDS_UPDATE", nb |-> Cardinality(act),
                delta |-> Cardinality(act) - Cardinality(p)]>>
    ELSE <<>>

\* WATCHNBUIDS_REQUEST: an update of the number of active UIDs
WatchNbUids(e, act, prev, upd) ==
    IF /\ e.request = "WATCHNBUIDS_REQUEST"
       /\ upd
       /\ prev # {}
       /\ \E p \in prev : Cardinality(act) # Cardinality(p)
    THEN LET p == CHOOSE p \in prev : TRUE
         IN  <<[type |-> "NBUIDS_UPDATE", nb |-> Cardinality(act),
                delta |-> Cardinality(act) - Cardinality(p)]>>
    ELSE <<>>

\* WATCHUIDS_REQUEST: is an update of the list of active UIDs due?
WatchUidsDue(e, act, prev, upd) ==
    /\ e.request = "WATCHUIDS_REQUEST"
    /\ prev # {}
    /\ (e.new_request \/ (prev # {act} /\ upd))

\* an add user request that any number of active UIDs but none would resolve
AddUserDueSomeUid(e, act) ==
    e.request = "ADDUSER_REQUEST" /\ Cardinality(act) >= 1

\* "Add user request: if we have exactly one active UID"
AddUserDue(e, act) ==
    e.request = "ADDUSER_REQUEST" /\ Cardinality(act) = 1

\* the add user that puts the new entry in front of the others
AddUserInFront(e, act, store, tstamp, salt) ==
    LET uid == CHOOSE u \in act : TRUE
    IN  IF MatchingEntries(e.user, uid, store) # {}
        THEN [client |-> VoidClient(e, tstamp),
              out |-> <<[type |-> "ENCRUIDS_UPDATE_ERR_EXISTS"]>>]
        ELSE [client |-> VoidClient(e, tstamp),
              out |-> <<[type |-> "ENCRUIDS_UPDATE",
                         new_encruids |->
                             <<<<e.user, crypt(uid, salt)>>>> \o store]>>]

\* ADDUSER_REQUEST with exactly one active UID
AddUser(e, act, store, tstamp, salt) ==
    LET uid == CHOOSE u \in act : TRUE
    IN  IF MatchingEntries(e.user, uid, store) # {}
        THEN [client |-> VoidClient(e, tstamp),
              out |-> <<[type |-> "ENCRUIDS_UPDATE_ERR_EXISTS"]>>]
        ELSE [client |-> VoidClient(e, tstamp),
              out |-> <<[type |-> "ENCRUIDS_UPDATE",
                         new_encruids |->
                             Append(store, <<e.user, crypt(uid, salt)>>)]>>]

\* the filter that only drops the entries of the user that an active UID matches
DelUserKeepsUnlessActive(e, act, entry) ==
    ~ (entry[1] = e.user /\ \E u \in act : Verify(u, entry[2]))

\* DELUSER_REQUEST with no timeout or with exactly one active UID
DelUserKeeps(e, act, entry) ==
    ~ (/\ entry[1] = e.user
       /\ (e.expires = NoExpiry \/ \E u \in act : Verify(u, entry[2])))

\* the del user that proposes a list even when it has deleted nothing
DelUserAlwaysProposes(e, act, store, tstamp) ==
    LET new_encruids == SelectSeq(store, LAMBDA entry : DelUserKeeps(e, act, entry))
    IN  [client |-> VoidClient(e, tstamp),
         out |-> <<[type |-> "ENCRUIDS_UPDATE", new_encruids |-> new_encruids]>>]

DelUser(e, act, store, tstamp) ==
    LET new_encruids == SelectSeq(store, LAMBDA entry : DelUserKeeps(e, act, entry))
        assoc_deleted == Len(new_encruids) < Len(store)
    IN  [client |-> VoidClient(e, tstamp),
         out |-> IF assoc_deleted
                 THEN <<[type |-> "ENCRUIDS_UPDATE", new_encruids |-> new_encruids]>>
                 ELSE <<[type |-> "ENCRUIDS_UPDATE_ERR_NONE"]>>]

\* the part of the pass that is skipped after a keepalive message
ProcessRequest(e, act, prev, upd, store, cache, tstamp, salt) ==
    IF WatchUidsDue(e, act, prev, upd)
    THEN [client |-> [e EXCEPT !.new_request = FALSE],
          out |-> <<[type |-> "UIDS_UPDATE", uids |-> ListOf(act)]>>,
          a |-> [auth |-> FALSE, uids |-> <<>>]]
    ELSE IF e.request = "WAITAUTH_REQUEST"
    THEN [client |-> e, out |-> <<>>,
          a |-> Authenticate(e.user, act, store, cache)]
    ELSE IF AddUserDue(e, act)
    THEN AddUser(e, act, store, tstamp, salt)
             @@ [a |-> [auth |-> FALSE, uids |-> <<>>]]
    ELSE IF /\ e.request = "DELUSER_REQUEST"
            /\ (e.expires = NoExpiry \/ Cardinality(act) = 1)
    THEN DelUser(e, act, store, tstamp)
             @@ [a |-> [auth |-> FALSE, uids |-> <<>>]]
    ELSE [client |-> e, out |-> <<>>, a |-> [auth |-> FALSE, uids |-> <<>>]]

Expired(e, tstamp) == e.expires = NoExpiry \/ tstamp >= e.expires

\* "If an authentication request has timed out or the authentication is
\* successful, notify the client handler"
AuthResult(e, a, tstamp) ==
    IF e.request = "WAITAUTH_REQUEST" /\ (a.auth \/ Expired(e, tstamp))
    THEN [client |-> VoidClient(e, tstamp),
          out |-> <<[type |-> "AUTH_RESULT", ok |-> a.auth,
                     uids |-> IF a.auth /\ e.user = e.pw_name
                              THEN a.uids ELSE <<>>]>>]
    ELSE [client |-> e, out |-> <<>>]

\* the timeouts of a main process that force-closes any session but those
\* that wait for an authentication
RequestTimeoutAnyRequest(e, tstamp) ==
    IF e.request \in {"ADDUSER_REQUEST", "DELUSER_REQUEST"} /\ Expired(e, tstamp)
    THEN [client |-> VoidClient(e, tstamp),
          out |-> <<[type |-> "ENCRUIDS_UPDATE_ERR_TIMEOUT"]>>]
    ELSE IF e.request # "WAITAUTH_REQUEST" /\ tstamp >= e.expires
    THEN [client |-> [e EXCEPT !.request = "None"],
          out |-> <<[type |-> "VOID_REQUEST_TIMEOUT"]>>]
    ELSE [client |-> e, out |-> <<>>]

\* the add user / del user timeout and the void request timeout
RequestTimeout(e, tstamp) ==
    IF e.request \in {"ADDUSER_REQUEST", "DELUSER_REQUEST"} /\ Expired(e, tstamp)
    THEN [client |-> VoidClient(e, tstamp),
          out |-> <<[type |-> "ENCRUIDS_UPDATE_ERR_TIMEOUT"]>>]
    ELSE IF e.request = "VOID_REQUEST" /\ tstamp >= e.expires
    THEN [client |-> [e EXCEPT !.request = "None"],
          out |-> <<[type |-> "VOID_REQUEST_TIMEOUT"]>>]
    ELSE [client |-> e, out |-> <<>>]

\* the pass that goes through the requests only when the active UIDs have
\* changed
ProcessClientOnChange(e, ka, act, prev, upd, store, cache, tstamp, salt) ==
    LET nb == IF ka THEN <<>> ELSE WatchNbUids(e, act, prev, upd)
        r1 == IF ka \/ ~ upd
              THEN [client |-> e, out |-> <<>>, a |-> [auth |-> FALSE, uids |-> <<>>]]
              ELSE ProcessRequest(e, act, prev, upd, store, cache, tstamp, salt)
        r2 == AuthResult(r1.client, r1.a, tstamp)
        r3 == RequestTimeout(r2.client, tstamp)
    IN  [client |-> r3.client, out |-> nb \o r1.out \o r2.out \o r3.out]

ProcessClient(e, ka, act, prev, upd, store, cache, tstamp, salt) ==
    LET nb == IF ka THEN <<>> ELSE WatchNbUids(e, act, prev, upd)
        r1 == IF ka
              THEN [client |-> e, out |-> <<>>, a |-> [auth |-> FALSE, uids |-> <<>>]]
              ELSE ProcessRequest(e, act, prev, upd, store, cache, tstamp, salt)
        r2 == AuthResult(r1.client, r1.a, tstamp)
        r3 == RequestTimeout(r2.client, tstamp)
    IN  [client |-> r3.client, out |-> nb \o r1.out \o r2.out \o r3.out]

\* the users whose authentication status the pass caches
CachedUsers(clients, ka) ==
    IF ka THEN {}
    ELSE {clients[p].user : p \in {q \in DOMAIN clients :
              clients[q].request = "WAITAUTH_REQUEST"}}

UpdateCache(cache, users, act, store) ==
    [u \in DOMAIN cache \cup users |->
        IF u \in DOMAIN cache THEN cache[u] ELSE ComputeAuth(u, act, store)]

(***************************************************************************)
(* main: the dispatch of one message of main_in_q                          *)
(***************************************************************************)
IsListenerUpdate(msg) == msg.type \in Listeners

RequestTypes == {"WAITAUTH_REQUEST", "ADDUSER_REQUEST", "DELUSER_REQUEST"}
WatchTypes == {"WATCHNBUIDS_REQUEST", "WATCHUIDS_REQUEST"}

\* active_clients[msg[1][0]] raises KeyError for a PID that is not a key
KnownPid(msg, clients) ==
    msg.type \in RequestTypes \cup WatchTypes \cup {"CLIENT_HANDLER_STOP_REQUEST"}
        => msg.pid \in DOMAIN clients

NewClient(msg, tstamp) ==
    [pw_name |-> msg.pw_name, main_out_p |-> msg.pipe,
     request |-> "VOID_REQUEST", user |-> "None",
     expires |-> tstamp + client_force_close_socket_timeout,
     new_request |-> TRUE]

\* the deadline of a request whose delay is not capped
RequestExpiresUncapped(wait, tstamp) ==
    IF wait < 0 THEN NoExpiry ELSE tstamp + wait

RequestExpires(wait, tstamp) ==
    IF wait < 0 THEN NoExpiry ELSE tstamp + Min(wait, max_auth_request_wait)

\* the dispatch that leaves the deadline of the replaced request to a watch
DispatchClientsKeepDeadline(msg, clients, tstamp) ==
    IF msg.type = "NEW_CLIENT"
    THEN [p \in DOMAIN clients \cup {msg.pid} |->
             IF p = msg.pid THEN NewClient(msg, tstamp) ELSE clients[p]]
    ELSE IF msg.type \in RequestTypes
    THEN [clients EXCEPT ![msg.pid] =
             [@ EXCEPT !.request = msg.type, !.user = msg.user,
                       !.expires = RequestExpires(msg.wait, tstamp)]]
    ELSE IF msg.type \in WatchTypes
    THEN [clients EXCEPT ![msg.pid] = [@ EXCEPT !.request = msg.type]]
    ELSE IF msg.type = "CLIENT_HANDLER_STOP_REQUEST"
    THEN [p \in DOMAIN clients \ {msg.pid} |-> clients[p]]
    ELSE clients

DispatchClients(msg, clients, tstamp) ==
    IF msg.type = "NEW_CLIENT"
    THEN [p \in DOMAIN clients \cup {msg.pid} |->
             IF p = msg.pid THEN NewClient(msg, tstamp) ELSE clients[p]]
    ELSE IF msg.type \in RequestTypes
    THEN [clients EXCEPT ![msg.pid] =
             [@ EXCEPT !.request = msg.type, !.user = msg.user,
                       !.expires = RequestExpires(msg.wait, tstamp)]]
    ELSE IF msg.type \in WatchTypes
    THEN [clients EXCEPT ![msg.pid] =
             [@ EXCEPT !.request = msg.type, !.user = "None",
                       !.expires = NoExpiry]]
    ELSE IF msg.type = "CLIENT_HANDLER_STOP_REQUEST"
    THEN [p \in DOMAIN clients \ {msg.pid} |-> clients[p]]
    ELSE clients

\* what the dispatch itself sends on connection c's pipe
DispatchOut(msg, c) ==
    IF msg.type = "NEW_CLIENT" /\ msg.pipe = c
    THEN <<[type |-> "NEW_CLIENT_ACK"]>>
    ELSE IF msg.type = "CLIENT_HANDLER_STOP_REQUEST" /\ msg.pipe = c
    THEN <<[type |-> "CLIENT_HANDLER_STOP"]>>
    ELSE <<>>

\* what the pass over the clients sends on connection c's pipe
RECURSIVE PassOut(_, _, _)
PassOut(k, res, c) ==
    IF k > Len(PidOrder) THEN <<>>
    ELSE (IF PidOrder[k] \in DOMAIN res /\ res[PidOrder[k]].client.main_out_p = c
          THEN res[PidOrder[k]].out ELSE <<>>) \o PassOut(k + 1, res, c)

\* mksalt(): the salts the pass may draw, one per client that adds a user
MkSalts(clients) ==
    {s \in [Pids -> Salts] :
        \A p \in Pids :
            (p \in DOMAIN clients => clients[p].request # "ADDUSER_REQUEST")
                => s[p] = 1}

(***************************************************************************)
(* main: one turn of the "while True" loop                                 *)
(***************************************************************************)
MainStep ==
    /\ main_state = "run"
    /\ main_in_q # <<>>
    /\ \A c \in Conns : Len(pipe[c]) < MaxPipe
    /\ main_in_q' = Tail(main_in_q)
    /\ LET msg == Head(main_in_q)
           msg_tstamp == now
       IN  IF ~ KnownPid(msg, active_clients)
           THEN /\ main_state' = "crashed"
                /\ UNCHANGED <<active_listener_uids, active_uids, active_uids_prev,
                               auth_cache, active_clients, encruids,
                               encruids_file_mtime, load_result, sent, pipe>>
           ELSE \E salt \in MkSalts(DispatchClients(Head(main_in_q), active_clients, now)) :
                LET ka == msg.type = "MAIN_PROCESS_KEEPALIVE"
                    lists == IF IsListenerUpdate(msg)
                             THEN [active_listener_uids EXCEPT ![msg.type] = msg.uids]
                             ELSE active_listener_uids
                    active_uids_new == MergeUids(lists)
                    upd == IsListenerUpdate(msg) /\ active_uids_new # active_uids
                    act == IF upd THEN active_uids_new ELSE active_uids
                    prev == IF upd THEN {active_uids} ELSE active_uids_prev
                    clients == DispatchClients(msg, active_clients, msg_tstamp)
                    ld == load_encruids(file, encruids_file_mtime, encruids)
                    cache == WipeCache(ld.res, upd, auth_cache)
                    res == [p \in DOMAIN clients |->
                               ProcessClient(clients[p], ka, act, prev, upd,
                                             ld.encruids, cache, msg_tstamp, salt[p])]
                    out == [c \in Conns |-> DispatchOut(msg, c) \o PassOut(1, res, c)]
                IN  /\ main_state' = "run"
                    /\ active_listener_uids' = lists
                    /\ active_uids' = act
                    /\ active_uids_prev' = prev
                    /\ encruids' = ld.encruids
                    /\ encruids_file_mtime' = ld.mtime
                    /\ load_result' = ld.res
                    /\ auth_cache' = UpdateCache(cache, CachedUsers(clients, ka),
                                                 act, ld.encruids)
                    /\ active_clients' = [p \in DOMAIN clients |-> res[p].client]
                    /\ sent' = out
                    /\ pipe' = [c \in Conns |-> pipe[c] \o out[c]]
    /\ UNCHANGED <<listener, now, file, handler, sock>>

(***************************************************************************)
(* The listeners, seen from main_in_q, and the clock                       *)
(***************************************************************************)
ListenerUpdate(l, uids) ==
    /\ Len(main_in_q) < MaxQueue
    /\ main_in_q' = Append(main_in_q, [type |-> l, uids |-> uids])
    /\ UNCHANGED <<listener, now, mainVars, file, pipe, handler, sock>>

KeepAlive ==
    /\ Len(main_in_q) < MaxQueue
    /\ main_in_q' = Append(main_in_q, [type |-> "MAIN_PROCESS_KEEPALIVE"])
    /\ UNCHANGED <<listener, now, mainVars, file, pipe, handler, sock>>

Tick ==
    /\ now < MaxTime
    /\ now' = now + 1
    /\ UNCHANGED <<listener, main_in_q, mainVars, file, pipe, handler, sock>>

(***************************************************************************)
(* tcp_listener() and hid_listener(): the lines of the reader, the table   *)
(* of the UIDs and what a turn of the loop puts on main_in_q               *)
(***************************************************************************)
tcp_keepalive == 5
tcp_uid_not_sent_inactive_timeout == 1
hid_simulate_uid_stays_active == 1

\* datetime.now().timestamp(): the listeners count in seconds, a tick of the
\* clock is 30 s
Timestamp(t) == 30 * t

\* str.upper() on the characters a reader sends
upper(c) ==
    CASE c = "a" -> "A" [] c = "b" -> "B" [] c = "z" -> "Z" [] OTHER -> c

hexdigits ==
    {"0", "1", "2", "3", "4", "5", "6", "7", "8", "9",
     "a", "b", "c", "d", "e", "f", "A", "B", "C", "D", "E", "F"}

\* "".join([c for c in l.upper() if c in hexdigits]), l a sequence of
\* characters
RECURSIVE HexUid(_)
HexUid(l) ==
    IF l = <<>> THEN ""
    ELSE (IF upper(Head(l)) \in hexdigits THEN upper(Head(l)) ELSE "")
             \o HexUid(Tail(l))

\* the lines a reader sends: a UID in lower case, and one without any
\* hexadecimal digit
ReaderLines == {<<"a", "1">>, <<"z", "z">>}

NoRead == [k |-> "timeout", lines |-> <<>>]

\* what select() and recv() give the TCP listener in a turn: nothing, the
\* end of the connection, or a line, which may be empty
TcpReads ==
    {NoRead, [k |-> "closed", lines |-> <<>>]}
        \cup {[k |-> "lines", lines |-> <<l>>] : l \in ReaderLines \cup {<<>>}}

\* what select() and read() give the HID listener: nothing, an error of the
\* device, or key strokes that complete no line or one line
HidReads ==
    {NoRead, [k |-> "error", lines |-> <<>>], [k |-> "events", lines |-> <<>>]}
        \cup {[k |-> "events", lines |-> <<l>>] : l \in ReaderLines}

NoTable == [u \in {} |-> 0]

\* the listener that is not started (watch_tcp, watch_hid are False)
NoListener ==
    [pc |-> "off", dev |-> FALSE, uids |-> NoTable,
     send_active_uids_update |-> TRUE, keepalive_timeout |-> 0, rlines |-> <<>>]

NoListeners == [tcp |-> NoListener, hid |-> NoListener]

\* t with the UID u set to the time v
Put(t, u, v) == [x \in DOMAIN t \cup {u} |-> IF x = u THEN v ELSE t[x]]

\* t without the UIDs that satisfy old
Drop(t, old(_)) == [x \in {u \in DOMAIN t : ~ old(u)} |-> t[x]]

\* tcp_listener, "Process the lines from the device"
RECURSIVE LastSeen(_, _, _, _)
LastSeen(t, send, rlines, tstamp) ==
    IF rlines = <<>> THEN [t |-> t, send |-> send]
    ELSE LET uid == HexUid(Head(rlines))
         IN  IF uid # ""
             THEN LastSeen(Put(t, uid, tstamp), send \/ uid \notin DOMAIN t,
                           Tail(rlines), tstamp)
             ELSE LastSeen(t, send, Tail(rlines), tstamp)

\* one turn of tcp_listener's loop: connects, sends tell whether connect()
\* and the sendall() of the keepalive succeed, rd is what is read
tcp_listener(s, connects, rd, sends, tstamp) ==
    IF ~ s.dev /\ ~ connects
    THEN [s |-> [s EXCEPT !.pc = "sleep"], puts |-> <<>>]
    ELSE IF rd.k = "closed"
    THEN [s |-> [s EXCEPT !.pc = "sleep", !.dev = FALSE, !.rlines = <<>>],
          puts |-> <<>>]
    ELSE LET seen == LastSeen(s.uids, s.send_active_uids_update, rd.lines, tstamp)
             kept == Drop(seen.t,
                          LAMBDA u : tstamp - seen.t[u] >
                                         tcp_uid_not_sent_inactive_timeout)
             send == seen.send \/ DOMAIN kept # DOMAIN seen.t
             lost == tstamp > s.keepalive_timeout /\ ~ sends
         IN  [s |-> [pc |-> IF lost THEN "sleep" ELSE "poll",
                     dev |-> ~ lost,
                     uids |-> kept,
                     send_active_uids_update |-> FALSE,
                     keepalive_timeout |->
                         IF tstamp > s.keepalive_timeout /\ sends
                         THEN tstamp + tcp_keepalive ELSE s.keepalive_timeout,
                     rlines |-> rd.lines],
              puts |-> IF send
                       THEN <<[type |-> "TCP", uids |-> DOMAIN kept]>>
                       ELSE <<[type |-> "MAIN_PROCESS_KEEPALIVE"]>>]

\* hid_listener, "Process the lines from the HID reader", up to the first
\* line at which nobody is logged in on the display: user.split()[0] raises
\* IndexError, which "except NameError" does not catch
RECURSIVE Expires(_, _, _, _, _)
Expires(t, send, rlines, logged, tnow) ==
    IF rlines = <<>> THEN [t |-> t, send |-> send, dies |-> FALSE]
    ELSE LET uid == HexUid(Head(rlines))
             t1 == Put(t, uid, tnow + hid_simulate_uid_stays_active)
             send1 == send \/ uid \notin DOMAIN t
         IN  IF logged THEN Expires(t1, send1, Tail(rlines), logged, tnow)
             ELSE [t |-> t1, send |-> send1, dies |-> TRUE]

\* one turn of hid_listener's loop: opens tells whether the device can be
\* opened and grabbed, rd is what is read, logged whether somebody is logged
\* in on the display
hid_listener(s, opens, rd, logged, tnow) ==
    IF ~ s.dev /\ ~ opens
    THEN [s |-> [s EXCEPT !.pc = "sleep"], puts |-> <<>>]
    ELSE IF rd.k = "error"
    THEN [s |-> [s EXCEPT !.pc = "sleep", !.dev = FALSE, !.rlines = <<>>],
          puts |-> <<>>]
    ELSE LET exp == Expires(s.uids, s.send_active_uids_update, rd.lines,
                            logged, tnow)
             kept == Drop(exp.t, LAMBDA u : tnow > exp.t[u])
             send == exp.send \/ DOMAIN kept # DOMAIN exp.t
         IN  IF exp.dies
             THEN [s |-> [s EXCEPT !.pc = "dead", !.dev = TRUE, !.uids = exp.t,
                                   !.send_active_uids_update = exp.send,
                                   !.rlines = rd.lines],
                   puts |-> <<>>]
             ELSE [s |-> [s EXCEPT !.pc = "poll", !.dev = TRUE, !.uids = kept,
                                   !.send_active_uids_update = FALSE,
                                   !.rlines = rd.lines],
                   puts |-> (IF rd.k = "timeout"
                             THEN <<[type |-> "MAIN_PROCESS_KEEPALIVE"]>>
                             ELSE <<>>)
                            \o (IF send
                                THEN <<[type |-> "HID", uids |-> DOMAIN kept]>>
                                ELSE <<>>)]

\* a turn of the TCP listener; the reader sends nothing at the last instant
\* of the clock
TcpListener ==
    /\ listener.tcp.pc = "poll"
    /\ Len(main_in_q) < MaxQueue
    /\ \E connects \in BOOLEAN, rd \in TcpReads, sends \in BOOLEAN :
           /\ rd.lines # <<>> => now < MaxTime
           /\ LET r == tcp_listener(listener.tcp, connects, rd, sends,
                                    Timestamp(now))
              IN  /\ listener' = [listener EXCEPT !.tcp = r.s]
                  /\ main_in_q' = main_in_q \o r.puts
    /\ UNCHANGED <<now, mainVars, file, pipe, handler, sock>>

\* a turn of the HID listener
HidListener ==
    /\ listener.hid.pc = "poll"
    /\ Len(main_in_q) < MaxQueue
    /\ \E opens \in BOOLEAN, rd \in HidReads, logged \in BOOLEAN :
           /\ rd.lines # <<>> => now < MaxTime
           /\ LET r == hid_listener(listener.hid, opens, rd, logged,
                                    Timestamp(now))
              IN  /\ listener' = [listener EXCEPT !.hid = r.s]
                  /\ main_in_q' = main_in_q \o r.puts
    /\ UNCHANGED <<now, mainVars, file, pipe, handler, sock>>

\* sleep(2) is over: "Wait a bit to reopen the socket", then continue
ListenerWakes ==
    /\ \E l \in {"tcp", "hid"} :
           /\ listener[l].pc = "sleep"
           /\ listener' = [listener EXCEPT ![l].pc = "poll"]
    /\ UNCHANGED <<now, main_in_q, mainVars, file, pipe, handler, sock>>

(***************************************************************************)
(* server(): a connection is accepted; the peer is checked and either a    *)
(* handler is spawned or the connection is closed                          *)
(***************************************************************************)
PwName(uid) == IF uid = 0 THEN "root" ELSE "alice"

\* pwd.getpwuid(uid) finds an entry: the UIDs of root and of alice
PwKnown(uid) == uid \in PeerUids

NoLine == [line |-> "", args |-> <<>>]

\* remote: is_remote_user(pid), what the peer's chain of parents says
NoHandler ==
    [pc |-> "none", pid |-> 0, uid |-> 0, pw_name |-> "None", conn |-> FALSE,
     new_client_ack |-> FALSE, csendbuf |-> NoLine, fds_conn |-> FALSE,
     remote |-> FALSE]

\* the client's end: inq holds the lines sent and not yet read by the handler,
\* nreq counts the lines sent, log is the transcript: the lines sent ("S") and
\* the last MaxLog lines received ("R"), in order
NoSock == [open |-> FALSE, inq |-> <<>>, nreq |-> 0, log |-> <<>>]

Without(log, i) == SubSeq(log, 1, i - 1) \o SubSeq(log, i + 1, Len(log))

\* the transcript keeps every line sent and the last MaxLog lines received
Logged(log, e) ==
    LET rs == {i \in 1..Len(log) : log[i].dir = "R"}
    IN  IF e.dir = "R" /\ Cardinality(rs) >= MaxLog
        THEN Append(Without(log, CHOOSE i \in rs : \A j \in rs : i <= j), e)
        ELSE Append(log, e)

\* the server that spawns a handler for any peer that has a passwd entry
AdmittedIfKnown(remote, uid) == PwKnown(uid)

\* "If the user isn't local, close the connection"; "Get the passwd name of
\* the calling process' UID ... if we get an error ... close the connection"
Admitted(remote, uid) == ~ remote /\ PwKnown(uid)

\* one turn of the server's loop; remote: what is_remote_user(pid) returns
ServerAccept(c, pid, uid, remote) ==
    /\ handler[c].pc = "none"
    /\ \A d \in Conns : d < c => handler[d].pc # "none"
    /\ handler' = [handler EXCEPT ![c] =
           IF Admitted(remote, uid)
           THEN [NoHandler EXCEPT !.pc = "start", !.pid = pid, !.uid = uid,
                                  !.pw_name = PwName(uid), !.conn = TRUE,
                                  !.remote = remote]
           ELSE [NoHandler EXCEPT !.pc = "refused", !.pid = pid, !.uid = uid,
                                  !.remote = remote]]
    /\ sock' = [sock EXCEPT ![c] = [NoSock EXCEPT !.open = TRUE]]
    /\ UNCHANGED <<listener, now, main_in_q, mainVars, file, pipe>>

\* the connection of a local peer that has a passwd entry
Accept(c, pid, uid) == ServerAccept(c, pid, uid, FALSE)

(***************************************************************************)
(* The client's end of the socket                                          *)
(***************************************************************************)
ClientLines ==
    [cmd : {"WAITAUTH", "ADDUSER", "DELUSER"}, user : Users, wait : Waits]
        \cup {[cmd |-> "WATCHNBUIDS"], [cmd |-> "WATCHUIDS"], [cmd |-> "JUNK"],
              [cmd |-> "NONASCII"]}

ClientSend(c, l) ==
    /\ sock[c].open
    /\ sock[c].nreq < MaxReq
    /\ sock' = [sock EXCEPT ![c].inq = Append(@, l), ![c].nreq = @ + 1,
                            ![c].log = Logged(@, [dir |-> "S", l |-> l])]
    /\ UNCHANGED <<listener, now, main_in_q, mainVars, file, pipe, handler>>

ClientClose(c) ==
    /\ sock[c].open
    /\ sock' = [sock EXCEPT ![c].open = FALSE]
    /\ UNCHANGED <<listener, now, main_in_q, mainVars, file, pipe, handler>>

(***************************************************************************)
(* The encrypted UIDs file as the handlers write it                        *)
(***************************************************************************)
\* a file that anybody may open for writing
CanWriteWhoever(f, uid) == TRUE

\* open(encrypted_uids_file, "w") by a process running as uid
CanWrite(f, uid) == uid \in f.writers

\* the file once open(..., "w") has truncated it
Truncated(f) == [f EXCEPT !.st = "bad", !.content = <<>>, !.mtime = @ + 1]

\* the file once json.dump() has written new_encruids and it was closed
Written(f, new_encruids) ==
    [f EXCEPT !.st = "ok", !.content = new_encruids, !.mtime = @ + 1]

\* somebody else damages the file: it no longer holds a list of pairs
Corrupt ==
    /\ file.st = "ok"
    /\ file' = [file EXCEPT !.st = "bad", !.content = <<>>, !.mtime = @ + 1]
    /\ UNCHANGED <<listener, now, main_in_q, mainVars, pipe, handler, sock>>

(***************************************************************************)
(* client_handler()                                                        *)
(***************************************************************************)
StopRequest(h, c) ==
    [type |-> "CLIENT_HANDLER_STOP_REQUEST", pid |-> h.pid, pipe |-> c]

HandlerStart(c) ==
    /\ handler[c].pc = "start"
    /\ handler' = [handler EXCEPT ![c].pc = "run"]
    /\ main_in_q' = Append(main_in_q,
           [type |-> "NEW_CLIENT", pid |-> handler[c].pid,
            pw_name |-> handler[c].pw_name, pipe |-> c])
    /\ UNCHANGED <<listener, now, mainVars, file, pipe, sock>>

\* the handler could not drop its privileges: "except: return(0)"
HandlerDropFails(c) ==
    /\ handler[c].pc = "start"
    /\ handler' = [handler EXCEPT ![c].pc = "nodrop", ![c].conn = FALSE]
    /\ UNCHANGED <<listener, now, main_in_q, mainVars, file, pipe, sock>>

\* what write_encruids() returned, as the line for the client
WriteReply(ok) == [line |-> IF ok THEN "OK" ELSE "WRITEERR", args |-> <<>>]

\* "Message from the main process": the handler after it and what it puts
\* on main_in_q. wrote: the value write_encruids() returned, if called.
OnMainMsg(h, c, msg, wrote) ==
    IF msg.type = "NEW_CLIENT_ACK"
    THEN [h |-> [h EXCEPT !.new_client_ack = TRUE], puts |-> <<>>]
    ELSE IF msg.type = "AUTH_RESULT"
    THEN [h |-> [h EXCEPT !.csendbuf =
                    [line |-> IF msg.ok THEN "AUTHOK" ELSE "NOAUTH",
                     args |-> msg.uids]],
          puts |-> <<>>]
    ELSE IF msg.type = "NBUIDS_UPDATE"
    THEN [h |-> [h EXCEPT !.csendbuf =
                    [line |-> "NBUIDS", args |-> <<msg.nb, msg.delta>>]],
          puts |-> <<>>]
    ELSE IF msg.type = "UIDS_UPDATE"
    THEN [h |-> [h EXCEPT !.csendbuf = [line |-> "UIDS", args |-> msg.uids]],
          puts |-> <<>>]
    ELSE IF msg.type = "ENCRUIDS_UPDATE_ERR_TIMEOUT"
    THEN [h |-> [h EXCEPT !.csendbuf = [line |-> "TIMEOUT", args |-> <<>>]],
          puts |-> <<>>]
    ELSE IF msg.type = "ENCRUIDS_UPDATE_ERR_EXISTS"
    THEN [h |-> [h EXCEPT !.csendbuf = [line |-> "EXISTS", args |-> <<>>]],
          puts |-> <<>>]
    ELSE IF msg.type = "ENCRUIDS_UPDATE_ERR_NONE"
    THEN [h |-> [h EXCEPT !.csendbuf = [line |-> "NONE", args |-> <<>>]],
          puts |-> <<>>]
    ELSE IF msg.type = "ENCRUIDS_UPDATE"
    THEN [h |-> [h EXCEPT !.csendbuf = WriteReply(wrote)], puts |-> <<>>]
    ELSE IF msg.type = "VOID_REQUEST_TIMEOUT"
    THEN \* conn.close() raises AttributeError once conn is None
         [h |-> IF h.conn THEN [h EXCEPT !.conn = FALSE]
                ELSE [h EXCEPT !.pc = "crashed"],
          puts |-> <<StopRequest(h, c)>>]
    ELSE \* CLIENT_HANDLER_STOP
         [h |-> [h EXCEPT !.pc = "stopped"], puts |-> <<>>]

\* "Process client requests": one line of the client
OnClientLine(h, l) ==
    IF l.cmd = "WATCHNBUIDS"
    THEN [h |-> h, puts |-> <<[type |-> "WATCHNBUIDS_REQUEST", pid |-> h.pid]>>]
    ELSE IF l.cmd = "WATCHUIDS"
    THEN IF h.uid = 0
         THEN [h |-> h, puts |-> <<[type |-> "WATCHUIDS_REQUEST", pid |-> h.pid]>>]
         ELSE [h |-> [h EXCEPT !.csendbuf = [line |-> "NOAUTH", args |-> <<>>]],
               puts |-> <<>>]
    ELSE IF l.cmd = "WAITAUTH"
    THEN [h |-> h, puts |-> <<[type |-> "WAITAUTH_REQUEST", pid |-> h.pid,
                               user |-> l.user, wait |-> l.wait]>>]
    ELSE IF l.cmd = "ADDUSER"
    THEN [h |-> h, puts |-> <<[type |-> "ADDUSER_REQUEST", pid |-> h.pid,
                               user |-> l.user, wait |-> l.wait]>>]
    ELSE IF l.cmd = "DELUSER"
    THEN [h |-> h, puts |-> <<[type |-> "DELUSER_REQUEST", pid |-> h.pid,
                               user |-> l.user, wait |-> l.wait]>>]
    ELSE [h |-> h, puts |-> <<>>]

RECURSIVE OnClientLines(_, _)
OnClientLines(h, lines) ==
    IF lines = <<>> THEN [h |-> h, puts |-> <<>>]
    ELSE LET r1 == OnClientLine(h, Head(lines))
             r2 == OnClientLines(r1.h, Tail(lines))
         IN  [h |-> r2.h, puts |-> r1.puts \o r2.puts]

\* "Message from the client": recv() returned the lines, or nothing when the
\* client has closed its end; decode("ascii") raises on a byte above 127 and
\* the exception is taken for a closed socket
OnClientData(h, c, lines) ==
    IF lines = <<>> \/ \E i \in 1..Len(lines) : lines[i].cmd = "NONASCII"
    THEN [h |-> [h EXCEPT !.conn = FALSE], puts |-> <<StopRequest(h, c)>>]
    ELSE OnClientLines(h, lines)

\* the rest of a turn of the loop after the message of the main process:
\* the client's data if select() returned conn and conn is still set
AfterMainMsg(r, c, withConn) ==
    IF withConn /\ r.h.pc = "run" /\ r.h.conn
    THEN LET r2 == OnClientData(r.h, c, sock[c].inq)
         IN  [h |-> r2.h, puts |-> r.puts \o r2.puts, read |-> TRUE]
    ELSE [h |-> r.h, puts |-> r.puts, read |-> FALSE]

PipeReady(c) == pipe[c] # <<>>

\* the select() that watches the socket before NEW_CLIENT_ACK has come
ConnReadyBeforeAck(c) ==
    /\ handler[c].conn
    /\ (sock[c].inq # <<>> \/ ~ sock[c].open)

ConnReady(c) ==
    /\ handler[c].conn
    /\ handler[c].new_client_ack
    /\ (sock[c].inq # <<>> \/ ~ sock[c].open)

\* select() returned: the pipe (withPipe), the socket (withConn) or both
HandlerSelect(c, withPipe, withConn) ==
    /\ handler[c].pc = "run"
    /\ handler[c].csendbuf.line = ""
    /\ withPipe \/ withConn
    /\ withPipe => PipeReady(c)
    /\ withConn => ConnReady(c)
    /\ IF /\ withPipe
          /\ Head(pipe[c]).type = "ENCRUIDS_UPDATE"
          /\ CanWrite(file, handler[c].uid)
       THEN \* write_encruids() has opened the file: it is truncated
            /\ file' = Truncated(file)
            /\ handler' = [handler EXCEPT ![c].pc = "writing",
                                          ![c].fds_conn = withConn]
            /\ UNCHANGED <<main_in_q, pipe, sock>>
       ELSE LET r1 == IF withPipe
                      THEN OnMainMsg(handler[c], c, Head(pipe[c]), FALSE)
                      ELSE [h |-> handler[c], puts |-> <<>>]
                r == AfterMainMsg(r1, c, withConn)
            IN  /\ handler' = [handler EXCEPT ![c] = r.h]
                /\ main_in_q' = main_in_q \o r.puts
                /\ pipe' = IF withPipe THEN [pipe EXCEPT ![c] = Tail(@)] ELSE pipe
                /\ sock' = IF r.read THEN [sock EXCEPT ![c].inq = <<>>] ELSE sock
                /\ UNCHANGED file
    /\ UNCHANGED <<listener, now, mainVars>>

\* write_encruids() returns True, and the turn of the loop goes on
HandlerWrite(c) ==
    /\ handler[c].pc = "writing"
    /\ file' = Written(file, Head(pipe[c]).new_encruids)
    /\ LET h1 == [handler[c] EXCEPT !.pc = "run", !.fds_conn = FALSE]
           r1 == OnMainMsg(h1, c, Head(pipe[c]), TRUE)
           r == AfterMainMsg(r1, c, handler[c].fds_conn)
       IN  /\ handler' = [handler EXCEPT ![c] = r.h]
           /\ main_in_q' = main_in_q \o r.puts
           /\ sock' = IF r.read THEN [sock EXCEPT ![c].inq = <<>>] ELSE sock
    /\ pipe' = [pipe EXCEPT ![c] = Tail(@)]
    /\ UNCHANGED <<listener, now, mainVars>>

\* json.dump() raises once the file is open (no space left, I/O error):
\* write_encruids() returns False, the file stays as open() has left it
HandlerWriteFails(c) ==
    /\ handler[c].pc = "writing"
    /\ LET h1 == [handler[c] EXCEPT !.pc = "run", !.fds_conn = FALSE]
           r1 == OnMainMsg(h1, c, Head(pipe[c]), FALSE)
           r == AfterMainMsg(r1, c, handler[c].fds_conn)
       IN  /\ handler' = [handler EXCEPT ![c] = r.h]
           /\ main_in_q' = main_in_q \o r.puts
           /\ sock' = IF r.read THEN [sock EXCEPT ![c].inq = <<>>] ELSE sock
    /\ pipe' = [pipe EXCEPT ![c] = Tail(@)]
    /\ UNCHANGED <<listener, now, mainVars, file>>

\* "Do we have something to send to the client?"
HandlerFlush(c) ==
    /\ handler[c].pc = "run"
    /\ handler[c].csendbuf.line # ""
    /\ IF handler[c].conn /\ ~ sock[c].open
       THEN \* sendall() raises; then "conn = none" raises NameError
            /\ main_in_q' = Append(main_in_q, StopRequest(handler[c], c))
            /\ handler' = [handler EXCEPT ![c].pc = "crashed", ![c].conn = FALSE]
            /\ UNCHANGED sock
       ELSE /\ handler' = [handler EXCEPT ![c].csendbuf = NoLine]
            /\ sock' = IF handler[c].conn
                       THEN [sock EXCEPT ![c].log =
                                Logged(@, [dir |-> "R", l |-> handler[c].csendbuf])]
                       ELSE sock
            /\ UNCHANGED main_in_q
    /\ UNCHANGED <<listener, now, mainVars, file, pipe>>

(***************************************************************************)
(* Initial states: the processes have just been started                    *)
(***************************************************************************)
Entry(user, uid, salt) == <<user, crypt(uid, salt)>>

FileContents ==
    { <<>>,
      <<Entry("alice", "AA", 1)>>,
      <<Entry("alice", "AA", 1), Entry("alice", "AA", 2)>>,
      <<Entry("root", "BB", 1), Entry("alice", "AA", 1)>> }

InitFiles ==
    [st : {"ok"}, content : FileContents, mtime : {1}, writers : {{0}, {0, 1000}}]
        \cup [st : {"missing", "bad"}, content : {<<>>}, mtime : {1},
              writers : {{0}, {0, 1000}}]

InitMainProcess ==
    /\ now = 0
    /\ main_in_q = <<>>
    /\ main_state = "run"
    /\ active_listener_uids = [l \in Listeners |-> {}]
    /\ active_uids = {}
    /\ active_uids_prev = {}
    /\ auth_cache = EmptyCache
    /\ active_clients = [p \in {} |-> NewClient([pw_name |-> "", pipe |-> 0], 0)]
    /\ encruids = <<>>
    /\ encruids_file_mtime = 0
    /\ load_result = "-"
    /\ sent = [c \in Conns |-> <<>>]
    /\ pipe = [c \in Conns |-> <<>>]
    /\ handler = [c \in Conns |-> NoHandler]
    /\ sock = [c \in Conns |-> NoSock]

\* no listener but the PCSC listener is started
InitMain ==
    /\ InitMainProcess
    /\ listener = NoListeners

Init ==
    /\ InitMain
    /\ file \in InitFiles

\* main has merged PCSC's report of AA and loaded file f; nobody is connected
InitTagOn(f) ==
    /\ now = 0
    /\ main_in_q = <<>>
    /\ main_state = "run"
    /\ active_listener_uids = [l \in Listeners |-> IF l = "PCSC" THEN {"AA"} ELSE {}]
    /\ active_uids = {"AA"}
    /\ active_uids_prev = {{}}
    /\ auth_cache = EmptyCache
    /\ active_clients = [p \in {} |-> NewClient([pw_name |-> "", pipe |-> 0], 0)]
    /\ encruids = f.content
    /\ encruids_file_mtime = f.mtime
    /\ load_result = "True"
    /\ sent = [c \in Conns |-> <<>>]
    /\ pipe = [c \in Conns |-> <<>>]
    /\ handler = [c \in Conns |-> NoHandler]
    /\ sock = [c \in Conns |-> NoSock]
    /\ listener = NoListeners
    /\ file = f

(***************************************************************************)
(* The next-state relation                                                 *)
(***************************************************************************)
\* ls: the listeners that report, lists: the lists of UIDs they may report
Listen(ls, lists) == \E l \in ls, uids \in lists : ListenerUpdate(l, uids)

\* peers: the <<connection, PID, UID>> the clients may connect as
Connect(peers) == \E p \in peers : Accept(p[1], p[2], p[3])

Start == \E c \in Conns : HandlerStart(c)

Select == \E c \in Conns, withPipe \in BOOLEAN, withConn \in BOOLEAN :
              HandlerSelect(c, withPipe, withConn)

Write == \E c \in Conns : HandlerWrite(c)

Flush == \E c \in Conns : HandlerFlush(c)

\* script: the <<connection, k, line>> such that line may be the k-th line
\* the connection's client sends
Send(script) ==
    \E e \in script : sock[e[1]].nreq + 1 = e[2] /\ ClientSend(e[1], e[3])

Close == \E c \in Conns : ClientClose(c)

Next ==
    \/ Listen(Listeners, SUBSET Uids)
    \/ KeepAlive
    \/ Tick
    \/ MainStep
    \/ \E c \in Conns, pid \in Pids, uid \in PeerUids \cup {4242}, remote \in BOOLEAN :
           ServerAccept(c, pid, uid, remote)
    \/ Start
    \/ \E c \in Conns : HandlerDropFails(c)
    \/ Select
    \/ Write
    \/ \E c \in Conns : HandlerWriteFails(c)
    \/ Flush
    \/ Send(Conns \X (1..MaxReq) \X ClientLines)
    \/ Close
    \/ Corrupt

Spec == Init /\ [][Next]_vars

(***************************************************************************)
(* The merge of the listeners' lists alone: no client ever connects        *)
(***************************************************************************)
InitMerge ==
    /\ InitMain
    /\ file = [st |-> "ok", content |-> <<Entry("alice", "AA", 1)>>, mtime |-> 1,
               writers |-> {0}]

NextMerge ==
    \/ Listen({"PCSC", "HTTP"}, SUBSET Uids)
    \/ KeepAlive
    \/ MainStep

SpecMerge == InitMerge /\ [][NextMerge]_vars

(***************************************************************************)
(* Watchers and authentications while tag AA stays on the reader: a client  *)
(* of root and a client of alice that come from the same process           *)
(***************************************************************************)
FileAlice ==
    [st |-> "ok", content |-> <<Entry("alice", "AA", 1)>>, mtime |-> 1,
     writers |-> {0}]

InitWatch == InitTagOn(FileAlice)

\* one process that connects as root, then again as alice
PeersWatch == {<<1, 1, 0>>, <<2, 1, 1000>>}

LinesWatch ==
    ({1} \X {1, 2} \X {[cmd |-> "WATCHUIDS"],
                       [cmd |-> "WAITAUTH", user |-> "alice", wait |-> 0]})
        \cup ({2} \X {1, 2} \X {[cmd |-> "WATCHUIDS"]})

NextWatch ==
    \/ MainStep
    \/ Connect(PeersWatch)
    \/ Start
    \/ Select
    \/ Flush
    \/ Send(LinesWatch)

SpecWatch == InitWatch /\ [][NextWatch]_vars

(***************************************************************************)
(* Two root sessions of two processes add users while tag AA stays on the  *)
(* reader; the first one then authenticates the user it added              *)
(***************************************************************************)
FileEmpty == [st |-> "ok", content |-> <<>>, mtime |-> 1, writers |-> {0}]

InitAdd == InitTagOn(FileEmpty)

PeersAdd == {<<1, 1, 0>>, <<2, 2, 0>>}

LinesAdd ==
    {<<1, 1, [cmd |-> "ADDUSER", user |-> "alice", wait |-> 0]>>,
     <<1, 2, [cmd |-> "WAITAUTH", user |-> "alice", wait |-> 0]>>,
     <<2, 1, [cmd |-> "ADDUSER", user |-> "root", wait |-> 0]>>,
     <<2, 2, [cmd |-> "ADDUSER", user |-> "root", wait |-> 0]>>}

NextAdd ==
    \/ MainStep
    \/ Connect(PeersAdd)
    \/ Start
    \/ Select
    \/ Write
    \/ Flush
    \/ Send(LinesAdd)

SpecAdd == InitAdd /\ [][NextAdd]_vars

(***************************************************************************)
(* One session of alice, who may write the file, authenticates herself and *)
(* deletes her tag while tags come and go and the file may get damaged     *)
(***************************************************************************)
FileTwice ==
    [st |-> "ok", content |-> <<Entry("alice", "AA", 1), Entry("alice", "AA", 2)>>,
     mtime |-> 1, writers |-> {0, 1000}]

FilesCache == {[FileAlice EXCEPT !.writers = {0, 1000}], FileTwice}

InitCache ==
    /\ InitMain
    /\ file \in FilesCache

PeersCache == {<<1, 1, 1000>>}

LinesCache ==
    {<<1, 1, [cmd |-> "WAITAUTH", user |-> "alice", wait |-> 0]>>,
     <<1, 1, [cmd |-> "WAITAUTH", user |-> "alice", wait |-> 1]>>,
     <<1, 2, [cmd |-> "DELUSER", user |-> "alice", wait |-> 0]>>,
     <<1, 2, [cmd |-> "WAITAUTH", user |-> "alice", wait |-> 0]>>,
     <<1, 3, [cmd |-> "WAITAUTH", user |-> "alice", wait |-> 0]>>}

NextCache ==
    \/ Listen({"PCSC"}, SUBSET {"AA"})
    \/ MainStep
    \/ Connect(PeersCache)
    \/ Start
    \/ Select
    \/ Write
    \/ Flush
    \/ Send(LinesCache)
    \/ Corrupt

SpecCache == InitCache /\ [][NextCache]_vars

(***************************************************************************)
(* A session of root and a session of alice, who may not write the file,   *)
(* add and delete alice's tag while it stays on the reader                 *)
(***************************************************************************)
InitWrite == InitTagOn(FileEmpty)

PeersWrite == {<<1, 1, 0>>, <<2, 2, 1000>>}

LinesWrite ==
    {<<1, 1, [cmd |-> "ADDUSER", user |-> "alice", wait |-> 0]>>,
     <<1, 2, [cmd |-> "DELUSER", user |-> "alice", wait |-> 0]>>,
     <<2, 1, [cmd |-> "ADDUSER", user |-> "alice", wait |-> 0]>>,
     <<2, 2, [cmd |-> "DELUSER", user |-> "alice", wait |-> -1]>>}

NextWrite ==
    \/ MainStep
    \/ Connect(PeersWrite)
    \/ Start
    \/ Select
    \/ Write
    \/ Flush
    \/ Send(LinesWrite)

SpecWrite == InitWrite /\ [][NextWrite]_vars

(***************************************************************************)
(* One session, of root or of alice who may not write the file, adds       *)
(* alice's tag within a delay while tags AA and BB come and go             *)
(***************************************************************************)
InitTime ==
    /\ InitMain
    /\ file = FileAlice

PeersTime == {<<1, 1, 0>>, <<1, 1, 1000>>}

LinesTime ==
    {<<1, 1, [cmd |-> "ADDUSER", user |-> "alice", wait |-> 1]>>,
     <<1, 2, [cmd |-> "ADDUSER", user |-> "alice", wait |-> 1]>>}

NextTime ==
    \/ Listen({"PCSC"}, SUBSET {"AA", "BB"})
    \/ KeepAlive
    \/ Tick
    \/ MainStep
    \/ Connect(PeersTime)
    \/ Start
    \/ Select
    \/ Write
    \/ Flush
    \/ Send(LinesTime)

SpecTime == InitTime /\ [][NextTime]_vars

(***************************************************************************)
(* One session, of root or of alice who may not write the file, deletes    *)
(* every entry of a user (negative delay) while tag AA comes and goes      *)
(***************************************************************************)
FileMixed ==
    [st |-> "ok",
     content |-> <<Entry("alice", "AA", 1), Entry("root", "BB", 1),
                   Entry("alice", "BB", 2), Entry("root", "AA", 1)>>,
     mtime |-> 1, writers |-> {0}]

InitDel ==
    /\ InitMain
    /\ file = FileMixed

NextDel ==
    \/ Listen({"PCSC"}, SUBSET {"AA"})
    \/ MainStep
    \/ Connect({<<1, 1, 0>>, <<1, 1, 1000>>})
    \/ Start
    \/ Select
    \/ Write
    \/ Flush
    \/ Send({<<1, 1, [cmd |-> "DELUSER", user |-> "alice", wait |-> -1]>>,
             <<1, 1, [cmd |-> "DELUSER", user |-> "root", wait |-> -1]>>,
             <<1, 2, [cmd |-> "DELUSER", user |-> "alice", wait |-> -1]>>})

SpecDel == InitDel /\ [][NextDel]_vars

(***************************************************************************)
(* One session of root watches the list of active UIDs while tags AA and   *)
(* BB come and go, before and after its request                            *)
(***************************************************************************)
InitUids ==
    /\ InitMain
    /\ file = FileAlice

NextUids ==
    \/ Listen({"PCSC"}, SUBSET {"AA", "BB"})
    \/ MainStep
    \/ Connect({<<1, 1, 0>>})
    \/ Start
    \/ Select
    \/ Flush
    \/ Send({<<1, 1, [cmd |-> "WATCHUIDS"]>>})

SpecUids == InitUids /\ [][NextUids]_vars

(***************************************************************************)
(* Two peers connect, local or remote, with or without a passwd entry, and *)
(* ask for an authentication; a handler may fail to drop its privileges    *)
(***************************************************************************)
InitAccept == InitTagOn(FileAlice)

NextAccept ==
    \/ \E uid \in PeerUids \cup {4242}, remote \in BOOLEAN :
           ServerAccept(1, 1, uid, remote) \/ ServerAccept(2, 2, uid, remote)
    \/ Start
    \/ \E c \in Conns : HandlerDropFails(c)
    \/ MainStep
    \/ Select
    \/ Flush
    \/ Send(Conns \X {1} \X {[cmd |-> "WAITAUTH", user |-> "alice", wait |-> 0]})

SpecAccept == InitAccept /\ [][NextAccept]_vars

(***************************************************************************)
(* One session of root that sends nothing: time passes, the listeners'     *)
(* keepalives arrive and the client may close its socket at any time       *)
(***************************************************************************)
InitIdle ==
    /\ InitMain
    /\ file = FileAlice

NextIdle ==
    \/ KeepAlive
    \/ Tick
    \/ MainStep
    \/ Connect({<<1, 1, 0>>})
    \/ Start
    \/ Select
    \/ Close

SpecIdle == InitIdle /\ [][NextIdle]_vars

(***************************************************************************)
(* One session of root lodges one request with a delay, below or above the *)
(* cap, while time passes, keepalives arrive and tag AA comes and goes     *)
(***************************************************************************)
InitDeadline ==
    /\ InitMain
    /\ file = FileAlice

NextDeadline ==
    \/ Listen({"PCSC"}, SUBSET {"AA"})
    \/ KeepAlive
    \/ Tick
    \/ MainStep
    \/ Connect({<<1, 1, 0>>})
    \/ Start
    \/ Select
    \/ Write
    \/ Flush
    \/ Send(({1} \X {1} \X [cmd : {"WAITAUTH", "ADDUSER", "DELUSER"},
                            user : {"alice"}, wait : {0, 1, 3}])
                 \cup {<<1, 2, [cmd |-> "WAITAUTH", user |-> "alice", wait |-> 1]>>})

SpecDeadline == InitDeadline /\ [][NextDeadline]_vars

(***************************************************************************)
(* Two sessions of two processes that send nothing and may close their     *)
(* sockets. Every process that can take a step eventually takes it: main   *)
(* blocks on main_in_q.get(), a handler's select() returns at the latest   *)
(* after 1 s, the listeners put a keepalive at regular intervals, and time *)
(* passes. Nothing makes a client act.                                     *)
(***************************************************************************)
InitLive ==
    /\ InitMain
    /\ file = FileAlice

NextLive ==
    \/ KeepAlive
    \/ Tick
    \/ MainStep
    \/ Connect({<<1, 1, 0>>, <<2, 2, 1000>>})
    \/ Start
    \/ Select
    \/ Close

FairLive ==
    /\ WF_vars(KeepAlive)
    /\ WF_vars(Tick)
    /\ WF_vars(MainStep)
    /\ \A c \in Conns :
           /\ WF_vars(HandlerStart(c))
           /\ WF_vars(\E withPipe, withConn \in BOOLEAN :
                          HandlerSelect(c, withPipe, withConn))

SpecLive == InitLive /\ [][NextLive]_vars /\ FairLive

(***************************************************************************)
(* One session of root lodges a request and then replaces it by another    *)
(* while time passes, keepalives arrive and tag AA comes and goes          *)
(***************************************************************************)
InitReplace ==
    /\ InitMain
    /\ file = FileAlice

NextReplace ==
    \/ Listen({"PCSC"}, SUBSET {"AA"})
    \/ KeepAlive
    \/ Tick
    \/ MainStep
    \/ Connect({<<1, 1, 0>>})
    \/ Start
    \/ Select
    \/ Write
    \/ Flush
    \/ Send({1} \X {1, 2} \X
                {[cmd |-> "WATCHNBUIDS"], [cmd |-> "WATCHUIDS"],
                 [cmd |-> "WAITAUTH", user |-> "alice", wait |-> 1],
                 [cmd |-> "ADDUSER", user |-> "root", wait |-> 3]})

SpecReplace == InitReplace /\ [][NextReplace]_vars

(***************************************************************************)
(* One session of alice authenticates herself with tag AA on the reader    *)
(* and, without waiting for the answer, asks to watch the UIDs             *)
(***************************************************************************)
InitPipeline == InitTagOn(FileAlice)

NextPipeline ==
    \/ MainStep
    \/ Connect({<<1, 1, 1000>>})
    \/ Start
    \/ Select
    \/ Flush
    \/ Send({<<1, 1, [cmd |-> "WAITAUTH", user |-> "alice", wait |-> 0]>>,
             <<1, 2, [cmd |-> "WATCHUIDS"]>>,
             <<1, 2, [cmd |-> "WAITAUTH", user |-> "alice", wait |-> 0]>>,
             <<1, 3, [cmd |-> "WATCHUIDS"]>>})

SpecPipeline == InitPipeline /\ [][NextPipeline]_vars

(***************************************************************************)
(* One session of root asks to watch the UIDs or their number, at any      *)
(* time, and then neither sends anything nor closes its socket, while time *)
(* passes, keepalives arrive and tag AA comes and goes                     *)
(***************************************************************************)
InitForever ==
    /\ InitMain
    /\ file = FileAlice

NextForever ==
    \/ Listen({"PCSC"}, SUBSET {"AA"})
    \/ KeepAlive
    \/ Tick
    \/ MainStep
    \/ Connect({<<1, 1, 0>>})
    \/ Start
    \/ Select
    \/ Flush
    \/ Send({1} \X {1} \X {[cmd |-> "WATCHNBUIDS"], [cmd |-> "WATCHUIDS"]})

SpecForever == InitForever /\ [][NextForever]_vars

(***************************************************************************)
(* The encrypted UIDs file as text: json.load(), the validation of what it *)
(* returns, and json.dump(..., indent=2). A text is a sequence of tokens;  *)
(* the files above are these texts as load_encruids() sees them.           *)
(***************************************************************************)
MaxWrites == 2

Tk(k) == [k |-> k]
Str(x) == [k |-> "str", v |-> x]
Num(n) == [k |-> "num", v |-> n]

Err == [ok |-> FALSE]

\* json.load(): the value of a text, white space skipped
RECURSIVE ParseValue(_), ParseItems(_, _)
ParseValue(t) ==
    IF t = <<>> THEN Err
    ELSE IF Head(t).k \in {"str", "num"}
    THEN [ok |-> TRUE, v |-> Head(t), rest |-> Tail(t)]
    ELSE IF Head(t).k = "lb"
    THEN IF Tail(t) # <<>> /\ Head(Tail(t)).k = "rb"
         THEN [ok |-> TRUE, v |-> [k |-> "list", v |-> <<>>], rest |-> Tail(Tail(t))]
         ELSE ParseItems(Tail(t), <<>>)
    ELSE Err

ParseItems(t, acc) ==
    LET r == ParseValue(t)
    IN  IF ~ r.ok \/ r.rest = <<>> THEN Err
        ELSE IF Head(r.rest).k = "comma"
        THEN ParseItems(Tail(r.rest), Append(acc, r.v))
        ELSE IF Head(r.rest).k = "rb"
        THEN [ok |-> TRUE, v |-> [k |-> "list", v |-> Append(acc, r.v)],
              rest |-> Tail(r.rest)]
        ELSE Err

json_load(text) ==
    LET r == ParseValue(SelectSeq(text, LAMBDA x : x.k # "ws"))
    IN  IF r.ok /\ r.rest = <<>> THEN r ELSE Err

\* "Validate the structure of the JSON format"
ValidEncruids(v) ==
    /\ v.k = "list"
    /\ \A i \in 1..Len(v.v) :
           /\ v.v[i].k = "list"
           /\ Len(v.v[i].v) = 2
           /\ v.v[i].v[1].k = "str"
           /\ v.v[i].v[2].k = "str"

\* the entries of a valid value
EncruidsOf(v) == [i \in 1..Len(v.v) |-> <<v.v[i].v[1].v, v.v[i].v[2].v>>]

RECURSIVE DumpItems(_, _)
DumpItems(entries, sep) ==
    IF entries = <<>> THEN <<>>
    ELSE <<Tk("ws"), Tk("lb"), Tk("ws"), Str(Head(entries)[1]), Tk("comma"),
           Tk("ws"), Str(Head(entries)[2]), Tk("ws"), Tk("rb")>>
             \o (IF Len(entries) > 1 THEN sep ELSE <<>>)
             \o DumpItems(Tail(entries), sep)

\* a dump that leaves out the comma between two entries
json_dump_unseparated(new_encruids) ==
    IF new_encruids = <<>> THEN <<Tk("lb"), Tk("rb")>>
    ELSE <<Tk("lb")>> \o DumpItems(new_encruids, <<>>) \o <<Tk("ws"), Tk("rb")>>

\* json.dump(new_encruids, f, indent=2)
json_dump(new_encruids) ==
    IF new_encruids = <<>> THEN <<Tk("lb"), Tk("rb")>>
    ELSE <<Tk("lb")>> \o DumpItems(new_encruids, <<Tk("comma")>>)
             \o <<Tk("ws"), Tk("rb")>>

\* the text file as load_encruids() sees it: its entries if it holds a list
\* of pairs of strings, a file that cannot be loaded if not
Loadable(f) ==
    IF f.st = "missing" THEN f
    ELSE LET r == json_load(f.content)
         IN  IF r.ok /\ ValidEncruids(r.v)
             THEN [f EXCEPT !.st = "ok", !.content = EncruidsOf(r.v)]
             ELSE [f EXCEPT !.st = "bad", !.content = <<>>]

\* main calls load_encruids() on the text file
LoadFile ==
    /\ LET ld == load_encruids(Loadable(file), encruids_file_mtime, encruids)
       IN  /\ encruids' = ld.encruids
           /\ encruids_file_mtime' = ld.mtime
           /\ load_result' = ld.res
    /\ UNCHANGED <<listener, now, main_in_q, main_state, active_listener_uids, active_uids,
                   active_uids_prev, auth_cache, active_clients, sent, file,
                   pipe, handler, sock>>

\* write_encruids() of the entries that were loaded
WriteBack ==
    /\ load_result = "True"
    /\ file.mtime <= MaxWrites
    /\ file' = [file EXCEPT !.st = "ok", !.content = json_dump(encruids),
                            !.mtime = @ + 1]
    /\ UNCHANGED <<listener, now, main_in_q, mainVars, pipe, handler, sock>>

\* a list of entries as somebody else may have written it, on one line, with
\* or without a blank after each comma
RECURSIVE TextItems(_, _)
TextItems(entries, gap) ==
    IF entries = <<>> THEN <<>>
    ELSE <<Tk("lb"), Str(Head(entries)[1]), Tk("comma")>> \o gap
             \o <<Str(Head(entries)[2]), Tk("rb")>>
             \o (IF Len(entries) > 1 THEN <<Tk("comma")>> \o gap ELSE <<>>)
             \o TextItems(Tail(entries), gap)

EntrySeqs ==
    LET es == {Entry("alice", "AA", 1), Entry("alice", "AA", 2),
               Entry("root", "BB", 1)}
    IN  {<<>>} \cup {<<e>> : e \in es} \cup {<<e1, e2>> : e1 \in es, e2 \in es}

\* texts that hold a list of pairs of strings, and texts that do not
WellFormedTexts ==
    {<<Tk("lb")>> \o TextItems(e, gap) \o <<Tk("rb")>> :
         e \in EntrySeqs, gap \in {<<>>, <<Tk("ws")>>}}

IllFormedTexts ==
    { <<>>,
      <<Tk("lb")>>,
      <<Str("alice")>>,
      <<Tk("lb"), Str("alice"), Tk("rb")>>,
      <<Tk("lb"), Tk("lb"), Str("alice"), Tk("rb"), Tk("rb")>>,
      <<Tk("lb"), Tk("lb"), Str("alice"), Tk("comma"), Num(1), Tk("rb"), Tk("rb")>>,
      <<Tk("lb"), Tk("lb"), Str("alice"), Tk("comma"), Str("x"), Tk("comma"),
        Str("y"), Tk("rb"), Tk("rb")>>,
      <<Tk("lb"), Tk("lb"), Str("alice"), Tk("comma"), Str("x"), Tk("rb"),
        Tk("rb"), Tk("rb")>> }

TextFiles ==
    [st : {"ok"}, content : WellFormedTexts \cup IllFormedTexts, mtime : {1},
     writers : {{0}}]
        \cup {[st |-> "missing", content |-> <<>>, mtime |-> 1, writers |-> {0}]}

\* somebody else replaces or removes the file
ReplaceFile ==
    /\ file.mtime <= MaxWrites
    /\ \E f \in TextFiles : file' = [f EXCEPT !.mtime = file.mtime + 1]
    /\ UNCHANGED <<listener, now, main_in_q, mainVars, pipe, handler, sock>>

InitText ==
    /\ InitMain
    /\ file \in TextFiles

NextText ==
    \/ LoadFile
    \/ WriteBack
    \/ ReplaceFile

SpecText == InitText /\ [][NextText]_vars

(***************************************************************************)
(* alice waits for an authentication while root adds her; keepalives and   *)
(* the clock                                                               *)
(***************************************************************************)
InitKeep == InitTagOn(FileEmpty)

NextKeep ==
    \/ KeepAlive
    \/ Tick
    \/ MainStep
    \/ Connect({<<1, 1, 1000>>, <<2, 2, 0>>})
    \/ Start
    \/ Select
    \/ Write
    \/ Flush
    \/ Send({<<1, 1, [cmd |-> "WAITAUTH", user |-> "alice", wait |-> 1]>>,
             <<2, 1, [cmd |-> "ADDUSER", user |-> "alice", wait |-> 0]>>})

SpecKeep == InitKeep /\ [][NextKeep]_vars

(***************************************************************************)
(* alice watches the number of active UIDs while tags come, go and replace *)
(* one another                                                             *)
(***************************************************************************)
InitNb ==
    /\ InitMain
    /\ file = FileAlice

NextNb ==
    \/ Listen({"PCSC"}, SUBSET {"AA", "BB"})
    \/ KeepAlive
    \/ MainStep
    \/ Connect({<<1, 1, 1000>>})
    \/ Start
    \/ Select
    \/ Flush
    \/ Send({<<1, 1, [cmd |-> "WATCHNBUIDS"]>>})

SpecNb == InitNb /\ [][NextNb]_vars

(***************************************************************************)
(* root or alice deletes the entries of a user for the tag on the reader   *)
(***************************************************************************)
InitDelUid ==
    /\ InitMain
    /\ file = FileMixed

NextDelUid ==
    \/ Listen({"PCSC"}, SUBSET {"AA", "BB"})
    \/ MainStep
    \/ Connect({<<1, 1, 0>>, <<1, 1, 1000>>})
    \/ Start
    \/ Select
    \/ Write
    \/ Flush
    \/ Send({<<1, 1, [cmd |-> "DELUSER", user |-> "alice", wait |-> 1]>>,
             <<1, 1, [cmd |-> "DELUSER", user |-> "root", wait |-> 1]>>,
             <<1, 2, [cmd |-> "DELUSER", user |-> "alice", wait |-> 1]>>})

SpecDelUid == InitDelUid /\ [][NextDelUid]_vars

(***************************************************************************)
(* root or alice adds root while the tag of alice is on the reader; the    *)
(* write of the handler may fail once the file is open                     *)
(***************************************************************************)
InitWriteFail == InitTagOn(FileAlice)

NextWriteFail ==
    \/ MainStep
    \/ Connect({<<1, 1, 0>>, <<1, 1, 1000>>})
    \/ Start
    \/ Select
    \/ Write
    \/ \E c \in Conns : HandlerWriteFails(c)
    \/ Flush
    \/ Send({1} \X {1, 2} \X {[cmd |-> "ADDUSER", user |-> "root", wait |-> 0]})

SpecWriteFail == InitWriteFail /\ [][NextWriteFail]_vars

(***************************************************************************)
(* alice sends lines that are no requests, with or without a request       *)
(* pending                                                                 *)
(***************************************************************************)
InitJunk == InitTagOn(FileAlice)

NextJunk ==
    \/ KeepAlive
    \/ Tick
    \/ MainStep
    \/ Connect({<<1, 1, 1000>>})
    \/ Start
    \/ Select
    \/ Flush
    \/ Send(({1} \X {1} \X {[cmd |-> "WAITAUTH", user |-> "root", wait |-> 1],
                            [cmd |-> "JUNK"], [cmd |-> "NONASCII"]})
                 \cup ({1} \X {2} \X {[cmd |-> "JUNK"], [cmd |-> "NONASCII"]}))

SpecJunk == InitJunk /\ [][NextJunk]_vars

(***************************************************************************)
(* The TCP listener or the HID listener (watch_tcp, watch_hid), main and   *)
(* the clock; nobody is connected                                          *)
(***************************************************************************)
InitListen ==
    /\ InitMainProcess
    /\ file = FileEmpty
    /\ \E l \in {"tcp", "hid"} :
           listener = [NoListeners EXCEPT ![l].pc = "poll"]

NextListen ==
    \/ TcpListener
    \/ HidListener
    \/ ListenerWakes
    \/ Tick
    \/ MainStep

SpecListen == InitListen /\ [][NextListen]_vars

\* the listeners and main run for ever and the clock advances
SpecListenFair ==
    /\ SpecListen
    /\ WF_vars(TcpListener)
    /\ WF_vars(HidListener)
    /\ WF_vars(ListenerWakes)
    /\ WF_vars(Tick)
    /\ WF_vars(MainStep)

(***************************************************************************)
(* Requests without a delay: a session of alice that sends WAITAUTH and    *)
(* ADDUSER with a negative wait, tags that come and go, and a file that    *)
(* may be damaged                                                          *)
(***************************************************************************)
InitNow == InitTagOn([FileAlice EXCEPT !.writers = {0, 1000}])

NextNow ==
    \/ Listen({"PCSC"}, SUBSET {"AA", "BB"})
    \/ MainStep
    \/ Connect({<<1, 1, 1000>>})
    \/ Start
    \/ Select
    \/ Write
    \/ Flush
    \/ Send({<<1, 1, [cmd |-> "WAITAUTH", user |-> "alice", wait |-> 0]>>,
             <<1, 1, [cmd |-> "WAITAUTH", user |-> "alice", wait |-> -1]>>,
             <<1, 1, [cmd |-> "ADDUSER", user |-> "root", wait |-> -1]>>,
             <<1, 2, [cmd |-> "WAITAUTH", user |-> "alice", wait |-> -1]>>,
             <<1, 2, [cmd |-> "ADDUSER", user |-> "alice", wait |-> -1]>>})
    \/ Corrupt

SpecNow == InitNow /\ [][NextNow]_vars

(***************************************************************************)
(* Requests that wait for a tag: a session of root that sends one ADDUSER  *)
(* or DELUSER, with or without a deadline, while tag AA comes and goes,    *)
(* with keepalives and the clock                                           *)
(***************************************************************************)
InitPending ==
    /\ InitMain
    /\ file = FileAlice

NextPending ==
    \/ Listen({"PCSC"}, SUBSET {"AA"})
    \/ KeepAlive
    \/ Tick
    \/ MainStep
    \/ Connect({<<1, 1, 0>>})
    \/ Start
    \/ Select
    \/ Write
    \/ Flush
    \/ Send({1} \X {1} \X [cmd : {"ADDUSER", "DELUSER"},
                           user : {"alice"}, wait : {-1, 1, 3}])

SpecPending == InitPending /\ [][NextPending]_vars

(***************************************************************************)
(* Properties                                                              *)
(***************************************************************************)
\* the lines connection c's client has received, among the last MaxLog
Received(c) == {i \in 1..Len(sock[c].log) : sock[c].log[i].dir = "R"}

\* the lines connection c's client has sent, among the last MaxLog
Sent(c) == {i \in 1..Len(sock[c].log) : sock[c].log[i].dir = "S"}

CarriesUids(line) == line.line \in {"UIDS", "AUTHOK", "NOAUTH", "OK", "EXISTS",
                                     "NONE", "TIMEOUT", "WRITEERR"} /\ line.args # <<>>

\* C1: a line delivered to a client carries UIDs only if it is the AUTHOK to
\* a WAITAUTH the peer sent for its own username, or a UIDS update delivered
\* to a peer that is the superuser.
C1_NoUidLeak ==
    \A c \in Conns : \A i \in Received(c) :
        CarriesUids(sock[c].log[i].l) =>
            \/ /\ sock[c].log[i].l.line = "UIDS"
               /\ handler[c].uid = 0
            \/ /\ sock[c].log[i].l.line = "AUTHOK"
               /\ \E j \in Sent(c) :
                      /\ j < i
                      /\ sock[c].log[j].l.cmd = "WAITAUTH"
                      /\ sock[c].log[j].l.user = handler[c].pw_name

\* a turn of main's loop: the only action that takes a message off main_in_q
IsMainStep == main_in_q # <<>> /\ main_in_q' = Tail(main_in_q)

\* the most recent list of every listener once the head message is processed
LatestLists ==
    [l \in Listeners |->
        IF Head(main_in_q).type = l THEN Head(main_in_q).uids
        ELSE active_listener_uids[l]]

\* the translation table applied to the union of the lists, duplicates merged
TranslatedUnion(lists) ==
    LET all == UNION {lists[l] : l \in Listeners}
    IN  {u \in all : u \notin DOMAIN uids_translation_table}
            \cup {uids_translation_table[u] : u \in all \cap DOMAIN uids_translation_table}

\* C4: after main has processed any message, the active UIDs are the
\* deduplicated, translated union of the most recent list of every listener
\* (the empty list for a listener that has sent none).
C4_ActiveSetIsMergedUnion ==
    [][IsMainStep =>
          /\ active_listener_uids' = LatestLists
          /\ active_uids' = TranslatedUnion(LatestLists)]_vars

\* C4 witness: a translated UID of one listener merges with another's list
C4_Witness ==
    /\ active_listener_uids["PCSC"] = {"CC"}
    /\ active_listener_uids["HTTP"] = {"AA", "BB"}
    /\ active_uids = {"AA", "BB"}

\* connection c's transcript holds, one after the other from position i: the
\* request cmd for user, the reply answer, a WAITAUTH for user and its reply
Exchange(c, i, cmd, user, answer) ==
    LET log == sock[c].log
    IN  /\ i + 3 <= Len(log)
        /\ log[i].dir = "S" /\ log[i].l.cmd = cmd /\ log[i].l.user = user
        /\ log[i + 1].dir = "R" /\ log[i + 1].l.line = answer
        /\ log[i + 2].dir = "S" /\ log[i + 2].l.cmd = "WAITAUTH"
        /\ log[i + 2].l.user = user
        /\ log[i + 3].dir = "R"

\* C2: with the one UID AA active throughout, a WAITAUTH for user sent after
\* the session's ADDUSER for user was answered OK is answered AUTHOK, and a
\* WAITAUTH for user sent after its DELUSER was answered OK is answered NOAUTH.
C2_AddThenAuthDelThenNoAuth ==
    \A c \in Conns : \A i \in 1..Len(sock[c].log) : \A u \in Users :
        /\ Exchange(c, i, "ADDUSER", u, "OK")
               => sock[c].log[i + 3].l.line = "AUTHOK"
        /\ Exchange(c, i, "DELUSER", u, "OK")
               => sock[c].log[i + 3].l.line = "NOAUTH"

\* the AUTHOK and NOAUTH lines connection c's client has received
Terminal(c) == {i \in Received(c) : sock[c].log[i].l.line \in {"AUTHOK", "NOAUTH"}}

\* the requests of connection c's client that are answered AUTHOK or NOAUTH
Asked(c) == {i \in Sent(c) : sock[c].log[i].l.cmd \in {"WAITAUTH", "WATCHUIDS"}}

\* C3: a terminal reply (AUTHOK or NOAUTH) goes to the session whose WAITAUTH
\* it answers, one per request: no session has received more terminal
\* replies than it had sent requests that call for one.
C3_OneTerminalReplyToItsSession ==
    \A c \in Conns : \A i \in Terminal(c) :
        Cardinality({j \in Terminal(c) : j <= i})
            <= Cardinality({j \in Asked(c) : j < i})

\* connection c's handler and main have nothing left to do for its client
Quiet(c) ==
    /\ sock[c].inq = <<>>
    /\ pipe[c] = <<>>
    /\ handler[c].pc = "run"
    /\ handler[c].csendbuf = NoLine
    /\ \A i \in 1..Len(main_in_q) :
           "pid" \in DOMAIN main_in_q[i] => main_in_q[i].pid # handler[c].pid

\* C8: a peer that is not the superuser gets one NOAUTH for every WATCHUIDS
\* it sent, and no UIDS line once it has sent a WATCHUIDS.
C8_NonRootWatchDenied ==
    \A c \in Conns : handler[c].pc # "none" /\ handler[c].uid # 0 =>
        /\ \A i \in Sent(c), j \in Received(c) :
               sock[c].log[i].l.cmd = "WATCHUIDS" /\ i < j
                   => sock[c].log[j].l.line # "UIDS"
        /\ Quiet(c) =>
               Cardinality({i \in Sent(c) : sock[c].log[i].l.cmd = "WATCHUIDS"})
                   <= Cardinality({j \in Received(c) :
                                      sock[c].log[j].l.line = "NOAUTH"})

\* the messages of the given type main sent on connection c's pipe in its
\* last turn
SentOf(c, type) == {i \in 1..Len(sent[c]) : sent[c][i].type = type}

\* C5: in a turn of main's loop in which the active UIDs change or the file
\* is reloaded, the cache is emptied before the clients are processed: what
\* it holds afterwards was computed in that turn from the new active UIDs
\* and the new store, and so was every successful AUTH_RESULT of the turn.
C5_CacheWipedOnChange ==
    [][IsMainStep /\ (active_uids' # active_uids \/ load_result' = "True") =>
          /\ \A u \in DOMAIN auth_cache' :
                 auth_cache'[u] = ComputeAuth(u, active_uids', encruids')
          /\ \A c \in Conns : \A i \in 1..Len(sent'[c]) :
                 sent'[c][i].type = "AUTH_RESULT" /\ sent'[c][i].ok =>
                     \E u \in Users : ComputeAuth(u, active_uids', encruids').auth]_vars

\* alice was authenticated, then her entry was deleted and the file reloaded:
\* the cache holds her new status
C5_Witness ==
    /\ load_result = "True"
    /\ encruids_file_mtime > 1
    /\ \E i \in Received(1) : sock[1].log[i].l.line = "AUTHOK"
    /\ "alice" \in DOMAIN auth_cache
    /\ ~ auth_cache["alice"].auth
    /\ active_uids = {"AA"}

\* C6: in a turn of main's loop in which the load of the file fails, no
\* WAITAUTH is answered AUTHOK.
C6_FailedLoadNoAuth ==
    load_result = "None" =>
        \A c \in Conns : \A i \in SentOf(c, "AUTH_RESULT") : ~ sent[c][i].ok

NoDuplicate(seq) == \A i, j \in 1..Len(seq) : seq[i] = seq[j] => i = j

\* C9: the UIDs of an AUTH_RESULT that lists UIDs are the active UIDs that
\* verify against an entry of the peer's own user, each listed once.
C9_AuthOkListsMatchingUids ==
    \A c \in Conns : \A i \in SentOf(c, "AUTH_RESULT") :
        sent[c][i].ok /\ sent[c][i].uids # <<>> =>
            /\ NoDuplicate(sent[c][i].uids)
            /\ {sent[c][i].uids[k] : k \in 1..Len(sent[c][i].uids)}
                   = {u \in active_uids :
                         MatchingEntries(handler[c].pw_name, u, encruids) # {}}

\* connection c's handler takes an ENCRUIDS_UPDATE off its pipe in this step
TakesUpdate(c) ==
    /\ pipe[c] # <<>>
    /\ Head(pipe[c]).type = "ENCRUIDS_UPDATE"
    /\ pipe'[c] = Tail(pipe[c])

From(p) == "pid" \in DOMAIN Head(main_in_q) /\ Head(main_in_q).pid = p

\* in the turn main is about to take, PID p's request is an ADDUSER: the
\* one the message brings, or the one pending if the message is not p's
AddUserAt(p) ==
    IF From(p) THEN Head(main_in_q).type = "ADDUSER_REQUEST"
    ELSE p \in DOMAIN active_clients /\ active_clients[p].request = "ADDUSER_REQUEST"

AddUserName(p) ==
    IF From(p) THEN Head(main_in_q).user ELSE active_clients[p].user

AddUserDeadline(p) ==
    IF From(p) THEN now + Min(Head(main_in_q).wait, max_auth_request_wait)
    ELSE active_clients[p].expires

\* the types of the messages main sends in this turn to PID p's client
SentTo(p) ==
    LET out == sent'[active_clients'[p].main_out_p]
    IN  [i \in 1..Len(out) |-> out[i].type]

\* what main does in a turn of its loop with an ADDUSER of positive wait:
\* with no or several active UIDs nothing but TIMEOUT once the deadline is
\* reached, with one active UID EXISTS or the proposal of a new list
AddUserResolved ==
    IsMainStep /\ main_state' = "run" =>
        \A p \in Pids : AddUserAt(p) =>
            IF Cardinality(active_uids') # 1
            THEN SentTo(p) = IF now >= AddUserDeadline(p)
                             THEN <<"ENCRUIDS_UPDATE_ERR_TIMEOUT">> ELSE <<>>
            ELSE \E u \in active_uids' :
                     SentTo(p) =
                         IF MatchingEntries(AddUserName(p), u, encruids') # {}
                         THEN <<"ENCRUIDS_UPDATE_ERR_EXISTS">>
                         ELSE <<"ENCRUIDS_UPDATE">>

DelAllAt(p) ==
    /\ From(p)
    /\ Head(main_in_q).type = "DELUSER_REQUEST"
    /\ Head(main_in_q).wait < 0

\* the store without any entry of user, the other entries in their order
WithoutUser(store, user) == SelectSeq(store, LAMBDA entry : entry[1] # user)

\* what main does in the turn of its loop that takes a DELUSER of negative
\* delay: whatever the active UIDs, it proposes the store without the user's
\* entries, or answers NONE if the store holds none; and what the handlers do:
\* no write for a NONE, and never a TIMEOUT line
DelAllResolved ==
    /\ IsMainStep /\ main_state' = "run" =>
           \A p \in Pids : DelAllAt(p) =>
               LET kept == WithoutUser(encruids', Head(main_in_q).user)
               IN  sent'[active_clients'[p].main_out_p] =
                       IF kept # encruids'
                       THEN <<[type |-> "ENCRUIDS_UPDATE", new_encruids |-> kept]>>
                       ELSE <<[type |-> "ENCRUIDS_UPDATE_ERR_NONE"]>>
    /\ \A c \in Conns :
           /\ handler'[c].csendbuf.line # "TIMEOUT"
           /\ (/\ pipe[c] # <<>>
               /\ Head(pipe[c]).type = "ENCRUIDS_UPDATE_ERR_NONE"
               /\ pipe'[c] = Tail(pipe[c]))
                  => file' = file /\ handler'[c].csendbuf.line = "NONE"

UidsSentTo(p) ==
    LET out == sent'[active_clients'[p].main_out_p]
        upd == SelectSeq(out, LAMBDA m : m.type = "UIDS_UPDATE")
    IN  [i \in 1..Len(upd) |-> upd[i].uids]

\* C12: a session of root that asks for WATCHUIDS while there is no active
\* UID is sent no UIDS_UPDATE in the turn that takes its request, whatever the
\* active UIDs were before, and a session that watches the UIDs is sent one
\* UIDS_UPDATE, carrying the new list, in every turn that changes the active
\* UIDs, and none in any other turn: the changes {} -> {X} -> {X,Y} -> {Y}
\* give UIDS X, UIDS X Y, UIDS Y and no other UIDS message.
C12_WatchUidsSeesExactlyTheChanges ==
    [][IsMainStep /\ main_state' = "run" =>
          \A p \in DOMAIN active_clients' :
              /\ active_clients'[p].request = "WATCHUIDS_REQUEST"
              /\ (From(p) => active_uids = {})
              => UidsSentTo(p) = IF active_uids' # active_uids
                                 THEN <<ListOf(active_uids')>> ELSE <<>>]_vars

\* connection c's handler puts NEW_CLIENT on main_in_q in this step
Announces(c) ==
    /\ Len(main_in_q') = Len(main_in_q) + 1
    /\ main_in_q'[Len(main_in_q')].type = "NEW_CLIENT"
    /\ main_in_q'[Len(main_in_q')].pipe = c

\* connection c's handler reads what its client sent in this step
ReadsFrom(c) == sock[c].inq # <<>> /\ sock'[c].inq = <<>>

C14_MainNeverFails == main_state = "run"

\* in the turn main is about to take PID p has a request with a deadline:
\* the one the message brings, or the one that is pending
TimedAt(p) ==
    IF From(p)
    THEN Head(main_in_q).type \in RequestTypes /\ Head(main_in_q).wait >= 0
    ELSE /\ p \in DOMAIN active_clients
         /\ active_clients[p].request \in RequestTypes
         /\ active_clients[p].expires # NoExpiry

\* its deadline: the time of reception plus the delay, at most the cap
DeadlineAt(p) ==
    IF From(p)
    THEN now + (IF Head(main_in_q).wait <= max_auth_request_wait
                THEN Head(main_in_q).wait ELSE max_auth_request_wait)
    ELSE active_clients[p].expires

TerminalTypes ==
    {"AUTH_RESULT", "ENCRUIDS_UPDATE", "ENCRUIDS_UPDATE_ERR_TIMEOUT",
     "ENCRUIDS_UPDATE_ERR_EXISTS", "ENCRUIDS_UPDATE_ERR_NONE"}

\* C15: a WAITAUTH, ADDUSER or DELUSER of delay w >= 0 that main receives at
\* time t has the deadline t + min(w, max_auth_request_wait), which never
\* moves while the request is pending; the first turn of main's loop at or
\* after the deadline sends the session one terminal message and leaves no
\* request pending, so that none is pending beyond max_auth_request_wait.
C15_TerminalReplyByDeadline ==
    [][IsMainStep /\ main_state' = "run" =>
          \A p \in Pids : TimedAt(p) =>
              /\ DeadlineAt(p) <= now + max_auth_request_wait
              /\ IF active_clients'[p].request \in RequestTypes
                 THEN /\ now < DeadlineAt(p)
                      /\ active_clients'[p].expires = DeadlineAt(p)
                      /\ SentTo(p) = <<>>
                 ELSE /\ active_clients'[p].request = "VOID_REQUEST"
                      /\ Len(SentTo(p)) = 1
                      /\ SentTo(p)[1] \in TerminalTypes]_vars

\* a WAITAUTH of delay 3, above the cap, was answered NOAUTH when the clock
\* was at 2: it was received at time 0 and its deadline was 2
C15_Witness ==
    /\ now = max_auth_request_wait
    /\ \E i \in Sent(1), j \in Received(1) :
           /\ i < j
           /\ sock[1].log[i].l.cmd = "WAITAUTH"
           /\ sock[1].log[i].l.wait = 3
           /\ sock[1].log[j].l.line = "NOAUTH"

\* connection c's session is void and its force-close deadline is within
\* the time the clock can reach
VoidDue(c) ==
    /\ handler[c].pc = "run"
    /\ handler[c].pid \in DOMAIN active_clients
    /\ active_clients[handler[c].pid].main_out_p = c
    /\ active_clients[handler[c].pid].request = "VOID_REQUEST"
    /\ active_clients[handler[c].pid].expires <= MaxTime

\* connection c's handler has closed the socket and returned or died, and
\* main holds no entry of its session
Gone(c) ==
    /\ handler[c].pc \in {"stopped", "crashed"}
    /\ ~ handler[c].conn
    /\ handler[c].pid \notin DOMAIN active_clients

\* C16: a session that stays void, its client sending nothing and keeping
\* its socket open, is eventually force-closed: the handler closes the
\* socket and exits, and main removes the session's entry.
C16_IdleSessionForceClosed ==
    \A c \in Conns : VoidDue(c) ~> (Gone(c) \/ ~ sock[c].open)

\* C17: whenever a client has closed its socket, whatever the state of its
\* session, the handler eventually asks main to stop, main removes the
\* session's entry and the handler terminates: no entry outlives its closed
\* connection for ever.
C17_ClosedSessionRemoved ==
    \A c \in Conns :
        (handler[c].pc \in {"start", "run"} /\ ~ sock[c].open) ~> Gone(c)

\* the message main is about to process is a request of PID p
RequestAt(p) == From(p) /\ Head(main_in_q).type \in RequestTypes \cup WatchTypes

\* the request PID p's session holds in the turn main is about to take
KindAt(p) ==
    IF RequestAt(p) THEN Head(main_in_q).type
    ELSE IF From(p) THEN "VOID_REQUEST"
    ELSE active_clients[p].request

\* the messages a request of a kind makes main send
CausedBy(kind) ==
    CASE kind = "WATCHNBUIDS_REQUEST" -> {"NBUIDS_UPDATE"}
      [] kind = "WATCHUIDS_REQUEST" -> {"UIDS_UPDATE"}
      [] kind = "WAITAUTH_REQUEST" -> {"AUTH_RESULT"}
      [] kind = "ADDUSER_REQUEST" ->
             {"ENCRUIDS_UPDATE", "ENCRUIDS_UPDATE_ERR_EXISTS",
              "ENCRUIDS_UPDATE_ERR_TIMEOUT"}
      [] kind = "DELUSER_REQUEST" ->
             {"ENCRUIDS_UPDATE", "ENCRUIDS_UPDATE_ERR_NONE",
              "ENCRUIDS_UPDATE_ERR_TIMEOUT"}
      [] kind = "VOID_REQUEST" -> {"VOID_REQUEST_TIMEOUT", "NEW_CLIENT_ACK"}
      [] OTHER -> {}

\* C18: a session holds one request at a time: the turn of main's loop that
\* takes a request of a session makes the session's kind, user and deadline
\* those of this request (or voids the session if it resolves the request
\* at once), and in every turn main sends a session only messages that the
\* request it then holds causes, none that a replaced request would cause.
C18_OneRequestPerSession ==
    [][IsMainStep /\ main_state' = "run" =>
          \A p \in DOMAIN active_clients' :
              /\ RequestAt(p) /\ active_clients'[p].request # "VOID_REQUEST" =>
                     /\ active_clients'[p].request = Head(main_in_q).type
                     /\ active_clients'[p].user =
                            IF Head(main_in_q).type \in RequestTypes
                            THEN Head(main_in_q).user ELSE "None"
                     /\ active_clients'[p].expires =
                            IF Head(main_in_q).type \in RequestTypes
                            THEN DeadlineAt(p) ELSE NoExpiry
              /\ \A i \in 1..Len(SentTo(p)) : SentTo(p)[i] \in CausedBy(KindAt(p))]_vars

\* the session watched the number of UIDs and got an update, then replaced
\* the watch by a WAITAUTH that was answered: tag AA has gone since, the
\* session is void and nothing is on its way to the client
C18_Witness ==
    /\ \E i, j, k, l \in 1..Len(sock[1].log) :
           /\ i < j /\ j < k /\ k < l
           /\ sock[1].log[i].dir = "S" /\ sock[1].log[i].l.cmd = "WATCHNBUIDS"
           /\ sock[1].log[j].dir = "R" /\ sock[1].log[j].l.line = "NBUIDS"
           /\ sock[1].log[k].dir = "S" /\ sock[1].log[k].l.cmd = "WAITAUTH"
           /\ sock[1].log[l].dir = "R" /\ sock[1].log[l].l.line = "NOAUTH"
    /\ active_uids = {}
    /\ active_uids_prev = {{"AA"}}
    /\ Quiet(1)
    /\ active_clients[1].request = "VOID_REQUEST"

\* the line that renders a message of main that bears a reply
ReplyLines(m) ==
    CASE m.type = "AUTH_RESULT" -> {IF m.ok THEN "AUTHOK" ELSE "NOAUTH"}
      [] m.type = "NBUIDS_UPDATE" -> {"NBUIDS"}
      [] m.type = "UIDS_UPDATE" -> {"UIDS"}
      [] m.type = "ENCRUIDS_UPDATE_ERR_TIMEOUT" -> {"TIMEOUT"}
      [] m.type = "ENCRUIDS_UPDATE_ERR_EXISTS" -> {"EXISTS"}
      [] m.type = "ENCRUIDS_UPDATE_ERR_NONE" -> {"NONE"}
      [] m.type = "ENCRUIDS_UPDATE" -> {"OK", "WRITEERR"}
      [] OTHER -> {}

\* connection c's handler takes a message that bears a reply off its pipe
\* in this step, while the client's socket is open
TakesReply(c) ==
    /\ pipe[c] # <<>>
    /\ pipe'[c] = Tail(pipe[c])
    /\ ReplyLines(Head(pipe[c])) # {}
    /\ handler[c].conn /\ sock[c].open

\* C19: every message of main that bears a reply, taken by the handler of a
\* session whose client socket is open, becomes one line for the client, and
\* the handler sends the client the lines it holds one by one in that order:
\* the line of a reply is not replaced by another line before it is sent.
C19_EveryReplyRendered ==
    [][\A c \in Conns :
          /\ TakesReply(c) =>
                 handler'[c].csendbuf.line \in ReplyLines(Head(pipe[c]))
          /\ handler[c].csendbuf.line # "" /\ handler[c].conn /\ sock[c].open =>
                 \/ handler'[c].csendbuf = handler[c].csendbuf
                 \/ /\ handler'[c].csendbuf = NoLine
                    /\ sock'[c].log =
                           Logged(sock[c].log,
                                  [dir |-> "R", l |-> handler[c].csendbuf])]_vars

\* the current request of connection c's session is a watch, and its client
\* has not closed the socket
Watching(c) ==
    /\ handler[c].pc # "none"
    /\ handler[c].pid \in DOMAIN active_clients
    /\ active_clients[handler[c].pid].main_out_p = c
    /\ active_clients[handler[c].pid].request \in WatchTypes
    /\ sock[c].open

\* in a turn of its loop main sends a session that watches, or asks to,
\* nothing but updates and gives it no deadline
WatchHasNoDeadline ==
    IsMainStep /\ main_state' = "run" =>
        \A p \in DOMAIN active_clients' : KindAt(p) \in WatchTypes =>
            /\ active_clients'[p].request = KindAt(p)
            /\ active_clients'[p].expires = NoExpiry
            /\ \A i \in 1..Len(SentTo(p)) :
                   SentTo(p)[i] \in {"NBUIDS_UPDATE", "UIDS_UPDATE"}

Loaded(f) == load_encruids(Loadable(f), 0, <<>>)

\* the file once the entries loaded from it have been written back
Rewritten(f) ==
    [f EXCEPT !.st = "ok", !.content = json_dump(Loaded(f).encruids), !.mtime = @ + 1]

\* C21: for a file that holds a list of pairs of strings, loading it and
\* writing the loaded entries back gives a file whose load returns the same
\* entries in the same order.
C21_WriteOfLoadLoadsTheSame ==
    Loaded(file).res = "True" =>
        /\ Loaded(Rewritten(file)).res = "True"
        /\ Loaded(Rewritten(file)).encruids = Loaded(file).encruids

\* a file written on one line, with two entries of alice for the same UID,
\* was loaded, written back with indentation and loaded again
C21_Witness ==
    /\ file.mtime = 2
    /\ encruids_file_mtime = 2
    /\ load_result = "True"
    /\ encruids = <<Entry("alice", "AA", 2), Entry("alice", "AA", 1)>>
    /\ file.content = json_dump(encruids)

\* connection c's client has sent ADDUSER for user u and the next line of its
\* transcript is the reply OK
AddAcknowledged(c, u) ==
    \E i \in Sent(c) :
        /\ sock[c].log[i].l.cmd = "ADDUSER" /\ sock[c].log[i].l.user = u
        /\ i < Len(sock[c].log)
        /\ sock[c].log[i + 1].dir = "R" /\ sock[c].log[i + 1].l.line = "OK"

\* every ADDUSER and DELUSER a client has sent is followed by its reply
AllAnswered ==
    \A c \in Conns : \A i \in Sent(c) :
        sock[c].log[i].l.cmd \in {"ADDUSER", "DELUSER"} =>
            /\ i < Len(sock[c].log)
            /\ sock[c].log[i + 1].dir = "R"

\* C22: with the one UID AA active throughout and sessions that only add,
\* once every ADDUSER sent has been answered, the credential file holds an
\* entry of user u that verifies AA for every ADDUSER u that was answered OK:
\* no acknowledged addition is lost by a later write.
C22_NoAcknowledgedMutationLost ==
    AllAnswered =>
        \A c \in Conns : \A u \in Users :
            AddAcknowledged(c, u) =>
                /\ file.st = "ok"
                /\ MatchingEntries(u, "AA", file.content) # {}

\* the turn main is about to take is that of a keepalive
IsKeepAliveStep ==
    IsMainStep /\ Head(main_in_q).type = "MAIN_PROCESS_KEEPALIVE" /\ main_state' = "run"

\* C23: in the turn of a keepalive main sends no update to a watcher and
\* resolves no ADDUSER or DELUSER, and every pending WAITAUTH whose user
\* matches the active UIDs and the store as reloaded in that turn is sent a
\* successful AUTH_RESULT in that turn, never a failed one.
C23_KeepAliveStillAuthenticates ==
    [][IsKeepAliveStep =>
          \A p \in DOMAIN active_clients :
              LET out == sent'[active_clients'[p].main_out_p]
              IN  /\ \A i \in 1..Len(out) :
                         out[i].type \notin {"NBUIDS_UPDATE", "UIDS_UPDATE",
                             "ENCRUIDS_UPDATE", "ENCRUIDS_UPDATE_ERR_EXISTS",
                             "ENCRUIDS_UPDATE_ERR_NONE"}
                  /\ /\ active_clients[p].request = "WAITAUTH_REQUEST"
                     /\ ComputeAuth(active_clients[p].user, active_uids', encruids').auth
                     => \E i \in 1..Len(out) :
                            out[i].type = "AUTH_RESULT" /\ out[i].ok]_vars

\* the message main is about to take is PID p's WATCHUIDS request
WatchUidsFrom(p) == From(p) /\ Head(main_in_q).type = "WATCHUIDS_REQUEST"

\* C24: the turn of main's loop that takes a WATCHUIDS request of a session
\* of root sends the session one UIDS_UPDATE carrying the active UIDs,
\* whether or not the active UIDs have changed since startup; in every other
\* turn a watching session is sent one UIDS_UPDATE if the active UIDs change
\* and none if they do not.
C24_WatchUidsAnsweredAtOnce ==
    [][IsMainStep /\ main_state' = "run" =>
          \A p \in DOMAIN active_clients' :
              active_clients'[p].request = "WATCHUIDS_REQUEST" =>
                  UidsSentTo(p) =
                      IF WatchUidsFrom(p) \/ active_uids' # active_uids
                      THEN <<ListOf(active_uids')>> ELSE <<>>]_vars

\* the updates of the number of active UIDs main sends PID p's session in
\* this turn
NbUidsSentTo(p) ==
    SelectSeq(sent'[active_clients'[p].main_out_p],
              LAMBDA m : m.type = "NBUIDS_UPDATE")

\* C25: a session that watches the number of active UIDs is sent one
\* NBUIDS_UPDATE [n, d] in every turn of main's loop in which the active UIDs
\* change and their number differs from what it was, with n the new number
\* and d the new number minus the old, and none in any other turn: a tag
\* replaced by another sends nothing, and no change is reported twice.
C25_NbUidsOnSizeChangeOnly ==
    [][IsMainStep /\ main_state' = "run" =>
          \A p \in DOMAIN active_clients' :
              active_clients'[p].request = "WATCHNBUIDS_REQUEST" =>
                  NbUidsSentTo(p) =
                      IF Cardinality(active_uids') # Cardinality(active_uids)
                      THEN <<[type |-> "NBUIDS_UPDATE",
                              nb |-> Cardinality(active_uids'),
                              delta |-> Cardinality(active_uids')
                                            - Cardinality(active_uids)]>>
                      ELSE <<>>]_vars

\* the watcher was told of the first tag (NBUIDS 1 1), and main has just
\* taken the replacement of AA by BB without sending it anything
C25_Witness ==
    /\ active_uids = {"BB"}
    /\ active_uids_prev = {{"AA"}}
    /\ 1 \in DOMAIN active_clients
    /\ active_clients[1].request = "WATCHNBUIDS_REQUEST"
    /\ sent[1] = <<>>
    /\ pipe[1] = <<>>
    /\ \E j \in Received(1) : sock[1].log[j].l.line = "NBUIDS"

\* C26: in a turn of main's loop, other than that of a keepalive, with an
\* ADDUSER of user u and exactly one active UID x: if the store holds an
\* entry of u that verifies x, main sends ENCRUIDS_UPDATE_ERR_EXISTS and no
\* proposal; if not, it proposes the store with the one entry (u, crypt(x,
\* salt)) appended, the entries it held unchanged and in their order. In both
\* cases the session is void afterwards, with the deadline now +
\* client_force_close_socket_timeout.
C26_AddUserExistsOrAppends ==
    [][/\ IsMainStep /\ main_state' = "run"
       /\ Head(main_in_q).type # "MAIN_PROCESS_KEEPALIVE"
       => \A p \in Pids : \A x \in Uids :
              AddUserAt(p) /\ active_uids' = {x} =>
                  /\ sent'[active_clients'[p].main_out_p] \in
                         IF MatchingEntries(AddUserName(p), x, encruids') # {}
                         THEN {<<[type |-> "ENCRUIDS_UPDATE_ERR_EXISTS"]>>}
                         ELSE {<<[type |-> "ENCRUIDS_UPDATE",
                                  new_encruids |->
                                      Append(encruids',
                                             <<AddUserName(p), crypt(x, s)>>)]>> :
                                   s \in Salts}
                  /\ active_clients'[p].request = "VOID_REQUEST"
                  /\ active_clients'[p].expires =
                         now + client_force_close_socket_timeout]_vars

\* root's first ADDUSER root was appended behind alice's entry and answered
\* OK, its second one was answered EXISTS
C26_Witness ==
    /\ Len(file.content) = 2
    /\ file.content[1][1] = "alice"
    /\ file.content[2][1] = "root"
    /\ \E i, j \in Received(2) :
           /\ i < j
           /\ sock[2].log[i].l.line = "OK"
           /\ sock[2].log[j].l.line = "EXISTS"

\* in the turn main is about to take, PID p's request is a DELUSER with a
\* deadline: the one the message brings, or the one pending
DelUidAt(p) ==
    IF From(p)
    THEN Head(main_in_q).type = "DELUSER_REQUEST" /\ Head(main_in_q).wait >= 0
    ELSE /\ p \in DOMAIN active_clients
         /\ active_clients[p].request = "DELUSER_REQUEST"
         /\ active_clients[p].expires # NoExpiry

\* the store without the entries of user that verify the UID x
WithoutUserUid(store, user, x) ==
    SelectSeq(store, LAMBDA entry : ~ (entry[1] = user /\ Verify(x, entry[2])))

\* what main does in a turn with such a DELUSER and exactly one active UID x:
\* it proposes the store without the user's entries that verify x, or sends
\* ENCRUIDS_UPDATE_ERR_NONE if there is none, and the session is void; and
\* what the handler does with ENCRUIDS_UPDATE_ERR_NONE
DelUidResolved ==
    /\ (/\ IsMainStep /\ main_state' = "run"
        /\ Head(main_in_q).type # "MAIN_PROCESS_KEEPALIVE")
           => \A p \in Pids : \A x \in Uids :
                  DelUidAt(p) /\ active_uids' = {x} =>
                      LET kept == WithoutUserUid(encruids', AddUserName(p), x)
                      IN  /\ sent'[active_clients'[p].main_out_p] =
                                 IF kept # encruids'
                                 THEN <<[type |-> "ENCRUIDS_UPDATE",
                                         new_encruids |-> kept]>>
                                 ELSE <<[type |-> "ENCRUIDS_UPDATE_ERR_NONE"]>>
                          /\ active_clients'[p].request = "VOID_REQUEST"
                          /\ active_clients'[p].expires =
                                 now + client_force_close_socket_timeout
    /\ \A c \in Conns :
           (/\ pipe[c] # <<>>
            /\ Head(pipe[c]).type = "ENCRUIDS_UPDATE_ERR_NONE"
            /\ pipe'[c] = Tail(pipe[c]))
               => file' = file /\ handler'[c].csendbuf.line = "NONE"

Unresolved(p) ==
    \/ Head(main_in_q).type = "MAIN_PROCESS_KEEPALIVE"
    \/ /\ KindAt(p) = "WAITAUTH_REQUEST"
       /\ ~ ComputeAuth(AddUserName(p), active_uids', encruids').auth
    \/ /\ KindAt(p) \in {"ADDUSER_REQUEST", "DELUSER_REQUEST"}
       /\ Cardinality(active_uids') # 1

\* C28: in a turn of main's loop at or after the deadline of a pending
\* request that the turn does not resolve, main sends the session exactly one
\* message, AUTH_RESULT with AUTH_NOK and no UIDs for a WAITAUTH and
\* ENCRUIDS_UPDATE_ERR_TIMEOUT for an ADDUSER or DELUSER, and the session
\* stays, void, with the deadline now + client_force_close_socket_timeout.
C28_TimeoutReplyThenVoid ==
    [][IsMainStep /\ main_state' = "run" =>
          \A p \in Pids :
              TimedAt(p) /\ now >= DeadlineAt(p) /\ Unresolved(p) =>
                  /\ sent'[active_clients'[p].main_out_p] =
                         IF KindAt(p) = "WAITAUTH_REQUEST"
                         THEN <<[type |-> "AUTH_RESULT", ok |-> FALSE, uids |-> <<>>]>>
                         ELSE <<[type |-> "ENCRUIDS_UPDATE_ERR_TIMEOUT"]>>
                  /\ p \in DOMAIN active_clients'
                  /\ active_clients'[p].request = "VOID_REQUEST"
                  /\ active_clients'[p].expires =
                         now + client_force_close_socket_timeout]_vars

\* root's ADDUSER alice 1, taken at time 0 with no tag on the reader, was
\* answered TIMEOUT at time 1: the session is void until time 3, its socket
\* open
C28_Witness ==
    /\ now = 1
    /\ active_uids = {}
    /\ \E i \in Sent(1), j \in Received(1) :
           /\ i < j
           /\ sock[1].log[i].l.cmd = "ADDUSER"
           /\ sock[1].log[i].l.wait = 1
           /\ sock[1].log[j].l.line = "TIMEOUT"
    /\ 1 \in DOMAIN active_clients
    /\ active_clients[1].request = "VOID_REQUEST"
    /\ active_clients[1].expires = 1 + client_force_close_socket_timeout
    /\ handler[1].conn

\* a call of load_encruids(): the file is left alone and the call shows in
\* the value returned, the store or the recorded mtime
IsLoad ==
    /\ file' = file
    /\ <<load_result, encruids, encruids_file_mtime>>' #
           <<load_result, encruids, encruids_file_mtime>>

\* the file's mtime is not beyond the recorded one
NotNewer ==
    /\ file.st # "missing"
    /\ encruids_file_mtime # 0
    /\ file.mtime <= encruids_file_mtime

\* C29: load_encruids() has three outcomes. If the file's mtime is not beyond
\* the recorded mtime it returns False and leaves the store and the recorded
\* mtime as they are; if the file cannot be stat'ed, or is newer and cannot
\* be read or parsed or is not a list of pairs of strings, it empties the
\* store and returns None; otherwise the store becomes the file's entries,
\* the file's mtime is recorded and it returns True.
C29_LoadHasThreeOutcomes ==
    [][IsLoad =>
          IF NotNewer
          THEN /\ load_result' = "False"
               /\ encruids' = encruids
               /\ encruids_file_mtime' = encruids_file_mtime
          ELSE IF Loadable(file).st # "ok"
          THEN /\ load_result' = "None"
               /\ encruids' = <<>>
          ELSE /\ load_result' = "True"
               /\ encruids' = Loadable(file).content
               /\ encruids_file_mtime' = file.mtime]_vars

\* after a first call had recorded the file's mtime the file was replaced by
\* a text that is no list of pairs: the load has emptied the store and
\* returned None, the recorded mtime is still that of the first call
C29_Witness ==
    /\ load_result = "None"
    /\ encruids = <<>>
    /\ encruids_file_mtime = 1
    /\ file.mtime = 2
    /\ file.st = "ok"
    /\ file.content = <<Tk("lb"), Str("alice"), Tk("rb")>>

\* connection c's client has received WRITEERR and no OK, and its handler is
\* not writing: no write of the session has succeeded or is under way
OnlyFailedWrites(c) ==
    /\ \E i \in Received(c) : sock[c].log[i].l.line = "WRITEERR"
    /\ \A i \in Received(c) : sock[c].log[i].l.line # "OK"
    /\ handler[c].pc = "run"

\* C30: when the write of the handler has failed and the client has received
\* WRITEERR, the credential file and the store main holds are what they were
\* before, and the session is void or has a new request, its socket open.
C30_FailedWriteChangesNothing ==
    \A c \in Conns : OnlyFailedWrites(c) =>
        /\ file = FileAlice
        /\ encruids = FileAlice.content
        /\ handler[c].conn
        /\ handler[c].pid \in DOMAIN active_clients
        /\ active_clients[handler[c].pid].request \in {"VOID_REQUEST", "ADDUSER_REQUEST"}

\* connection c's handler reads lines of its client in this step, none of
\* which has one of the five forms of a request, and takes no message of main
ReadsNoRequest(c) ==
    /\ ReadsFrom(c)
    /\ \A i \in 1..Len(sock[c].inq) : sock[c].inq[i].cmd \in {"JUNK", "NONASCII"}
    /\ pipe' = pipe

\* C31: a line of a client that has none of the five forms of a request puts
\* nothing on main_in_q, gives no reply, leaves the session's entry as it is
\* and leaves the socket open.
C31_UnparsedLineIgnored ==
    [][\A c \in Conns : ReadsNoRequest(c) =>
          /\ main_in_q' = main_in_q
          /\ active_clients' = active_clients
          /\ handler'[c].csendbuf = handler[c].csendbuf
          /\ handler'[c].conn = handler[c].conn]_vars

\* the requests the lines give once the handler h has read them, in order
RECURSIVE RequestsOf(_, _)
RequestsOf(h, lines) ==
    IF lines = <<>> THEN <<>>
    ELSE OnClientLine(h, Head(lines)).puts \o RequestsOf(h, Tail(lines))

\* the lines connection c's client has sent, in order
LinesSent(c) ==
    LET ss == SelectSeq(sock[c].log, LAMBDA e : e.dir = "S")
    IN  [i \in 1..Len(ss) |-> ss[i].l]

\* the requests of connection c's session that wait on main_in_q
RequestsQueued(c) ==
    SelectSeq(main_in_q,
              LAMBDA m : m.type \in RequestTypes \cup WatchTypes
                             /\ m.pid = handler[c].pid)

\* the requests of connection c's session that main has not taken yet: those
\* on main_in_q, then those of the lines the handler has not read
RequestsAhead(c) ==
    RequestsQueued(c) \o RequestsOf(handler[c], sock[c].inq)

IsSuffix(s, t) ==
    Len(s) <= Len(t) /\ s = SubSeq(t, Len(t) - Len(s) + 1, Len(t))

\* C32: the turn of main's loop that takes NEW_CLIENT inserts the session,
\* void, with the deadline now + client_force_close_socket_timeout, and sends
\* NEW_CLIENT_ACK; a handler reads nothing from its client before it has the
\* acknowledgement, so every request on main_in_q is of a session main holds;
\* and the requests of a session that main has yet to take are always the
\* last ones its client sent, in the client's order.
C32_AckBeforeRequestsInOrder ==
    [][/\ IsMainStep /\ Head(main_in_q).type = "NEW_CLIENT" =>
              LET p == Head(main_in_q).pid
              IN  /\ p \in DOMAIN active_clients'
                  /\ active_clients'[p].main_out_p = Head(main_in_q).pipe
                  /\ active_clients'[p].request = "VOID_REQUEST"
                  /\ active_clients'[p].expires =
                         now + client_force_close_socket_timeout
                  /\ sent'[Head(main_in_q).pipe] = <<[type |-> "NEW_CLIENT_ACK"]>>
       /\ \A c \in Conns :
              /\ ReadsFrom(c) => handler[c].new_client_ack
              /\ handler[c].pc = "run" =>
                     /\ RequestsQueued(c) # <<>> =>
                            /\ handler[c].new_client_ack
                            /\ handler[c].pid \in DOMAIN active_clients
                     /\ IsSuffix(RequestsAhead(c), RequestsOf(handler[c], LinesSent(c)))]_vars

\* both requests of the first session are on main_in_q, behind one another,
\* in the order its client sent them
C32_Witness ==
    /\ Len(main_in_q) >= 2
    /\ main_in_q[1].type = "ADDUSER_REQUEST" /\ main_in_q[1].pid = 1
    /\ main_in_q[2].type = "WAITAUTH_REQUEST" /\ main_in_q[2].pid = 1
    /\ handler[1].new_client_ack

WatchedListeners == {"tcp", "hid"}

\* a turn of listener l's loop: it was polling and is not as it was
ListenerTurn(l) == listener[l].pc = "poll" /\ listener'[l] # listener[l]

\* C33: every turn of the loop of a listener puts at least one message, a
\* list of UIDs or a keepalive, on main_in_q, the turns with the device
\* unavailable or just lost and the turns that read something new to nobody
\* included, so that main takes a message again and again.
C33_EveryTurnPutsAMessage ==
    /\ [][\A l \in WatchedListeners :
              ListenerTurn(l) => Len(main_in_q') > Len(main_in_q)]_vars
    /\ []<><<MainStep>>_vars

UpperHexDigits ==
    {"0", "1", "2", "3", "4", "5", "6", "7", "8", "9",
     "A", "B", "C", "D", "E", "F"}

RECURSIVE Join(_)
Join(s) == IF s = <<>> THEN "" ELSE Head(s) \o Join(Tail(s))

\* the strings of one or two upper case hexadecimal digits: a reader's line
\* has two characters
UpperHexUids == {Join(s) : s \in UNION {[1..n -> UpperHexDigits] : n \in 1..2}}

\* the lines of which nothing is left once the other characters are removed
NoHexLines(rlines) == \A i \in 1..Len(rlines) : HexUid(rlines[i]) = ""

\* C34: every UID of every list a listener puts on main_in_q is a non-empty
\* string of upper case hexadecimal digits, and a turn that reads only lines
\* without a hexadecimal digit adds nothing to the listener's table.
C34_OnlyUpperHexUidsEmitted ==
    [][/\ \A i \in 1..Len(main_in_q') :
              main_in_q'[i].type \in {"TCP", "HID"} =>
                  main_in_q'[i].uids \subseteq UpperHexUids
       /\ \A l \in WatchedListeners :
              ListenerTurn(l) /\ NoHexLines(listener'[l].rlines) =>
                  DOMAIN listener'[l].uids \subseteq DOMAIN listener[l].uids]_vars

\* the UID u is on a line that a listener has read in its last turn
ReadNow(u) ==
    \E l \in WatchedListeners :
        \E i \in 1..Len(listener[l].rlines) : HexUid(listener[l].rlines[i]) = u

Held(u) ==
    \/ u \in active_uids
    \/ \E l \in WatchedListeners : u \in DOMAIN listener[l].uids

\* C35: a UID that is not read any more leaves the listener's table and,
\* with the list that follows, main's active_uids, for good, also when the
\* device fails after the UID was read.
C35_UnreadUidLeaves ==
    \A u \in {"A1", ""} : <>[](~ ReadNow(u)) => <>[](~ Held(u))

\* the CLIENT_HANDLER_STOP_REQUEST of connection c's handler on the queue q
StopRequestsOf(c, q) ==
    Len(SelectSeq(q, LAMBDA m : m.type = "CLIENT_HANDLER_STOP_REQUEST"
                                    /\ m.pipe = c))

\* C36: a handler puts CLIENT_HANDLER_STOP_REQUEST once, while it still
\* holds its socket, and nothing after it, so that every request and every
\* CLIENT_HANDLER_STOP_REQUEST that main takes from main_in_q names a pid
\* that is in active_clients.
C36_OneStopRequestPerSession ==
    [][/\ \A c \in Conns :
              Len(main_in_q') > Len(main_in_q) /\ handler'[c] # handler[c] =>
                  /\ handler[c].conn
                  /\ StopRequestsOf(c, main_in_q') <= StopRequestsOf(c, main_in_q) + 1
       /\ IsMainStep => KnownPid(Head(main_in_q), active_clients)]_vars

\* connection c's session is open: its handler has the acknowledgement of
\* its NEW_CLIENT and still holds the socket
SessionOpen(c) ==
    /\ handler[c].pc \in {"run", "writing"}
    /\ handler[c].new_client_ack
    /\ handler[c].conn

\* C37: the sessions that are open at the same time are independent, also
\* when they come from one peer PID: each has its own entry in
\* active_clients, with its own pipe, which no NEW_CLIENT, request or
\* CLIENT_HANDLER_STOP_REQUEST of another session replaces or removes, so
\* that what main sends for a session goes to that session's handler.
C37_SessionsOfOnePidIndependent ==
    \A c \in Conns :
        SessionOpen(c) =>
            /\ handler[c].pid \in DOMAIN active_clients
            /\ active_clients[handler[c].pid].main_out_p = c
            /\ \A d \in Conns \ {c} :
                   SessionOpen(d) => handler[d].pid # handler[c].pid
                       \/ active_clients[handler[d].pid].main_out_p # c

\* C38: whenever main goes through the sessions, every entry of auth_cache
\* is what matching the current active_uids against the current encruids
\* gives for its user, whatever load_encruids() returned before, also when
\* it failed and emptied encruids.
C38_CacheMatchesStore ==
    \A u \in DOMAIN auth_cache :
        auth_cache[u] = ComputeAuth(u, active_uids, encruids)

\* main takes a WAITAUTH or an ADDUSER request of p that has a negative wait
NegativeWaitAt(p) ==
    /\ IsMainStep
    /\ main_state' = "run"
    /\ Head(main_in_q).type \in {"WAITAUTH_REQUEST", "ADDUSER_REQUEST"}
    /\ Head(main_in_q).pid = p
    /\ Head(main_in_q).wait < 0

\* C39: a WAITAUTH or an ADDUSER request with a negative wait is resolved in
\* the turn of main's loop that takes it: the session is void again and one
\* message is sent, for WAITAUTH the result of matching the current
\* active_uids against the current encruids, for ADDUSER the new list or
\* "exists" with exactly one active UID and "timeout" otherwise.
C39_NegativeWaitResolvedAtOnce ==
    [][\A p \in Pids :
           NegativeWaitAt(p) =>
               LET m == Head(main_in_q)
                   out == sent'[active_clients'[p].main_out_p]
               IN  /\ active_clients'[p].request = "VOID_REQUEST"
                   /\ Len(out) = 1
                   /\ m.type = "WAITAUTH_REQUEST" =>
                          /\ out[1].type = "AUTH_RESULT"
                          /\ out[1].ok = ComputeAuth(m.user, active_uids',
                                                     encruids').auth
                   /\ m.type = "ADDUSER_REQUEST" =>
                          IF Cardinality(active_uids') = 1
                          THEN out[1].type \in {"ENCRUIDS_UPDATE",
                                                "ENCRUIDS_UPDATE_ERR_EXISTS"}
                          ELSE out[1].type = "ENCRUIDS_UPDATE_ERR_TIMEOUT"]_vars

\* C40: after every turn of main's loop, that of a keepalive included, no
\* session is left with an ADDUSER request, or a DELUSER request that has a
\* deadline, while exactly one UID is active, and none with a DELUSER
\* request without deadline.
C40_NothingResolvableLeftPending ==
    \A p \in DOMAIN active_clients :
        LET e == active_clients[p]
        IN  /\ e.request = "ADDUSER_REQUEST" => Cardinality(active_uids) # 1
            /\ e.request = "DELUSER_REQUEST" =>
                   e.expires # NoExpiry /\ Cardinality(active_uids) # 1

\* tag AA alone is on the reader and the session, whose last line was an
\* ADDUSER, is void again: main has just sent "exists" to its handler
C40_Witness ==
    /\ active_uids = {"AA"}
    /\ 1 \in DOMAIN active_clients
    /\ active_clients[1].request = "VOID_REQUEST"
    /\ sent[1] = <<[type |-> "ENCRUIDS_UPDATE_ERR_EXISTS"]>>
    /\ active_listener_uids["PCSC"] = {"AA"}
    /\ \E i \in Sent(1) : sock[1].log[i].l.cmd = "ADDUSER" /\ sock[1].log[i].l.wait = 1

====
